---- MODULE Spec2Model ----
(***************************************************************************)
(* Transcript-driven UI replay engine (aiauto/suites/ui/compare):          *)
(* build_steps_from_excel, AgentFactory.answer_choice and the main loop of *)
(* run_scenario1, run against a scripted page; run_scenario2 and           *)
(* semantic_agreement (aiauto/common/metrics.py).                          *)
(***************************************************************************)
EXTENDS Integers, Sequences, FiniteSets, TLC

(***************************************************************************)
(* Text.  A Python str is a TLA+ string; Chars gives its characters, so    *)
(* that lower(), strip(), the `in` test and re.search are computed on the  *)
(* characters.  "EN DASH" stands for the single character U+2013, written  *)
(* "--" in the string that names it.                                       *)
(***************************************************************************)
Chars ==
     ("Compare" :> <<"C", "o", "m", "p", "a", "r", "e">>)
  @@ ("Anant" :> <<"A", "n", "a", "n", "t">>)
  @@ ("Welcome" :> <<"W", "e", "l", "c", "o", "m", "e">>)
  @@ ("Live in it" :> <<"L", "i", "v", "e", " ", "i", "n", " ", "i", "t">>)
  @@ ("looking good" :> <<"l", "o", "o", "k", "i", "n", "g", " ", "g", "o", "o", "d">>)
  @@ ("Rent it out" :> <<"R", "e", "n", "t", " ", "i", "t", " ", "o", "u", "t">>)
  @@ ("6+ months away" :> <<"6", "+", " ", "m", "o", "n", "t", "h", "s", " ", "a", "w", "a", "y">>)
  @@ ("3-6 months away" :> <<"3", "-", "6", " ", "m", "o", "n", "t", "h", "s", " ", "a", "w", "a", "y">>)
  @@ ("Less than 3 months" :> <<"L", "e", "s", "s", " ", "t", "h", "a", "n", " ", "3", " ", "m", "o", "n", "t", "h", "s">>)
  @@ ("It's already ended" :> <<"I", "t", "'", "s", " ", "a", "l", "r", "e", "a", "d", "y", " ", "e", "n", "d", "e", "d">>)
  @@ ("Check here" :> <<"C", "h", "e", "c", "k", " ", "h", "e", "r", "e">>)
  @@ ("Compare live mortgage deals" :> <<"C", "o", "m", "p", "a", "r", "e", " ", "l", "i", "v", "e", " ", "m", "o", "r", "t", "g", "a", "g", "e", " ", "d", "e", "a", "l", "s">>)
  @@ ("Get an expert recommendation" :> <<"G", "e", "t", " ", "a", "n", " ", "e", "x", "p", "e", "r", "t", " ", "r", "e", "c", "o", "m", "m", "e", "n", "d", "a", "t", "i", "o", "n">>)
  @@ ("Continue" :> <<"C", "o", "n", "t", "i", "n", "u", "e">>)
  @@ ("Next" :> <<"N", "e", "x", "t">>)
  @@ ("Compare deals" :> <<"C", "o", "m", "p", "a", "r", "e", " ", "d", "e", "a", "l", "s">>)
  @@ ("Start comparison" :> <<"S", "t", "a", "r", "t", " ", "c", "o", "m", "p", "a", "r", "i", "s", "o", "n">>)
  @@ ("Proceed" :> <<"P", "r", "o", "c", "e", "e", "d">>)
  @@ ("OK" :> <<"O", "K">>)
  @@ ("live in it" :> <<"l", "i", "v", "e", " ", "i", "n", " ", "i", "t">>)
  @@ ("rent it out" :> <<"r", "e", "n", "t", " ", "i", "t", " ", "o", "u", "t">>)
  @@ ("6+ months" :> <<"6", "+", " ", "m", "o", "n", "t", "h", "s">>)
  @@ ("3-6 months" :> <<"3", "-", "6", " ", "m", "o", "n", "t", "h", "s">>)
  @@ ("3 -- 6 months" :> <<"3", " ", "EN DASH", " ", "6", " ", "m", "o", "n", "t", "h", "s">>)
  @@ ("3--6 months" :> <<"3", "EN DASH", "6", " ", "m", "o", "n", "t", "h", "s">>)
  @@ ("less than 3 months" :> <<"l", "e", "s", "s", " ", "t", "h", "a", "n", " ", "3", " ", "m", "o", "n", "t", "h", "s">>)
  @@ ("already ended" :> <<"a", "l", "r", "e", "a", "d", "y", " ", "e", "n", "d", "e", "d">>)
  @@ ("check here" :> <<"c", "h", "e", "c", "k", " ", "h", "e", "r", "e">>)
  @@ ("compare live mortgage deals" :> <<"c", "o", "m", "p", "a", "r", "e", " ", "l", "i", "v", "e", " ", "m", "o", "r", "t", "g", "a", "g", "e", " ", "d", "e", "a", "l", "s">>)
  @@ ("anant" :> <<"a", "n", "a", "n", "t">>)
  @@ ("compare" :> <<"c", "o", "m", "p", "a", "r", "e">>)
  @@ ("When does your deal end?" :> <<"W", "h", "e", "n", " ", "d", "o", "e", "s", " ", "y", "o", "u", "r", " ", "d", "e", "a", "l", " ", "e", "n", "d", "?">>)
  @@ ("Check here please" :> <<"C", "h", "e", "c", "k", " ", "h", "e", "r", "e", " ", "p", "l", "e", "a", "s", "e">>)
  @@ ("Unknown" :> <<"U", "n", "k", "n", "o", "w", "n">>)
  @@ ("Accept all cookies" :> <<"A", "c", "c", "e", "p", "t", " ", "a", "l", "l", " ", "c", "o", "o", "k", "i", "e", "s">>)
  @@ ("Accept" :> <<"A", "c", "c", "e", "p", "t">>)
  @@ ("I agree" :> <<"I", " ", "a", "g", "r", "e", "e">>)
  @@ ("Got it" :> <<"G", "o", "t", " ", "i", "t">>)
  @@ ("Close" :> <<"C", "l", "o", "s", "e">>)
  @@ ("Speaker" :> <<"S", "p", "e", "a", "k", "e", "r">>)
  @@ ("Message" :> <<"M", "e", "s", "s", "a", "g", "e">>)
  @@ ("speaker" :> <<"s", "p", "e", "a", "k", "e", "r">>)
  @@ ("message" :> <<"m", "e", "s", "s", "a", "g", "e">>)
  @@ (" speaker " :> <<" ", "s", "p", "e", "a", "k", "e", "r", " ">>)
  @@ ("MESSAGE" :> <<"M", "E", "S", "S", "A", "G", "E">>)
  @@ ("Notes" :> <<"N", "o", "t", "e", "s">>)
  @@ ("Text" :> <<"T", "e", "x", "t">>)
  @@ ("in 24 hours" :> <<"i", "n", " ", "2", "4", " ", "h", "o", "u", "r", "s">>)
  @@ (" in 24 hours " :> <<" ", "i", "n", " ", "2", "4", " ", "h", "o", "u", "r", "s", " ">>)
  @@ ("   " :> <<" ", " ", " ">>)
  @@ ("Not found in policy context." :> <<"N", "o", "t", " ", "f", "o", "u", "n", "d", " ", "i", "n", " ", "p", "o", "l", "i", "c", "y", " ", "c", "o", "n", "t", "e", "x", "t", ".">>)
  @@ (" ANANT " :> <<" ", "A", "N", "A", "N", "T", " ">>)
  @@ ("ANANT" :> <<"A", "N", "A", "N", "T">>)
  @@ ("Anant W" :> <<"A", "n", "a", "n", "t", " ", "W">>)
  @@ ("  RENT it OUT  " :> <<" ", " ", "R", "E", "N", "T", " ", "i", "t", " ", "O", "U", "T", " ", " ">>)
  @@ ("RENT it OUT" :> <<"R", "E", "N", "T", " ", "i", "t", " ", "O", "U", "T">>)
  @@ ("Rent it out or Live in it" :> <<"R", "e", "n", "t", " ", "i", "t", " ", "o", "u", "t", " ", "o", "r", " ", "L", "i", "v", "e", " ", "i", "n", " ", "i", "t">>)
  @@ ("6+months" :> <<"6", "+", "m", "o", "n", "t", "h", "s">>)
  @@ ("3-6   months" :> <<"3", "-", "6", " ", " ", " ", "m", "o", "n", "t", "h", "s">>)
  @@ ("COMPARE LIVE MORTGAGE DEALS" :> <<"C", "O", "M", "P", "A", "R", "E", " ", "L", "I", "V", "E", " ", "M", "O", "R", "T", "G", "A", "G", "E", " ", "D", "E", "A", "L", "S">>)
  @@ ("" :> <<>>)

Strings == DOMAIN Chars

\* The value of dict.get(key) for a key the dict does not have.
Absent == "<absent>"

UpperCase ==
  <<"A", "B", "C", "D", "E", "F", "G", "H", "I", "J", "K", "L", "M",
    "N", "O", "P", "Q", "R", "S", "T", "U", "V", "W", "X", "Y", "Z">>

LowerCase ==
  <<"a", "b", "c", "d", "e", "f", "g", "h", "i", "j", "k", "l", "m",
    "n", "o", "p", "q", "r", "s", "t", "u", "v", "w", "x", "y", "z">>

Digits == <<"0", "1", "2", "3", "4", "5", "6", "7", "8", "9">>

Range(f) == {f[i] : i \in DOMAIN f}

lower_char(c) ==
  IF c \in Range(UpperCase)
    THEN LowerCase[CHOOSE i \in DOMAIN UpperCase : UpperCase[i] = c]
    ELSE c

\* str.lower() on the characters
lower(cs) == [i \in 1..Len(cs) |-> lower_char(cs[i])]

\* a in b, for two strings given by their characters
contains(a, b) ==
  \E i \in 0..(Len(b) - Len(a)) : \A j \in 1..Len(a) : b[i + j] = a[j]

\* b.startswith(a)
startswith(b, a) ==
  Len(a) <= Len(b) /\ \A j \in 1..Len(a) : b[j] = a[j]

IsSpace(c) == c \in {" ", "\t", "\n"}

IsWord(c) == c \in Range(UpperCase) \cup Range(LowerCase) \cup Range(Digits) \cup {"_"}

\* str.strip() on the characters
strip_chars(cs) ==
  LET keep == {i \in 1..Len(cs) : ~IsSpace(cs[i])}
  IN  IF keep = {} THEN <<>>
      ELSE LET lo == CHOOSE i \in keep : \A k \in keep : i <= k
               hi == CHOOSE i \in keep : \A k \in keep : k <= i
           IN  SubSeq(cs, lo, hi)

\* The string that has the characters cs.
StrOf(cs) == CHOOSE s \in Strings : Chars[s] = cs

\* s.strip(), tabulated once over Strings
StripTab == {<<s, StrOf(strip_chars(Chars[s]))>> : s \in Strings}

strip(s) == (CHOOSE p \in StripTab : p[1] = s)[2]

\* needle.lower() in haystack.lower(), tabulated once over Strings
InLowerTab ==
  UNION {IF contains(lower(Chars[n]), lower(Chars[h])) THEN {<<n, h>>} ELSE {} :
           n \in Strings, h \in Strings}

in_lower(needle, haystack) == <<needle, haystack>> \in InLowerTab

\* needle in txt.lower(), tabulated once over Strings
HasTab ==
  UNION {IF contains(Chars[n], lower(Chars[t])) THEN {<<t, n>>} ELSE {} :
           n \in Strings, t \in Strings}

has(txt, needle) == <<txt, needle>> \in HasTab

(***************************************************************************)
(* re.search(patt, msg, flags=re.I) for the patterns of click_map: every   *)
(* pattern is \b, a run of atoms, \b; an atom is a literal character or    *)
(* "\\s*".                                                                 *)
(***************************************************************************)
WordAt(s, j) == j >= 1 /\ j <= Len(s) /\ IsWord(s[j])

\* \b between s[j-1] and s[j]
boundary(s, j) == WordAt(s, j - 1) # WordAt(s, j)

RECURSIVE match_from(_, _, _, _)
match_from(p, i, s, j) ==
  IF i > Len(p) THEN boundary(s, j)
  ELSE IF p[i] = "\\s*"
    THEN \/ match_from(p, i + 1, s, j)
         \/ j <= Len(s) /\ IsSpace(s[j]) /\ match_from(p, i, s, j + 1)
    ELSE /\ j <= Len(s)
         /\ lower_char(s[j]) = lower_char(p[i])
         /\ match_from(p, i + 1, s, j + 1)

re_search(patt, s) ==
  \E j \in 1..Len(s) : boundary(s, j) /\ match_from(patt, 1, s, j)

(***************************************************************************)
(* build_steps_from_excel: the transcript rows become the action queue     *)
(* (steps) and the report context.  A step is a dict; idx stands for the   *)
(* identity of the dict object (its rank among the steps emitted).         *)
(***************************************************************************)
click_map ==
  << [patt |-> <<"L", "i", "v", "e", " ", "i", "n", " ", "i", "t">>,
      label |-> "Live in it"],
     [patt |-> <<"R", "e", "n", "t", " ", "i", "t", " ", "o", "u", "t">>,
      label |-> "Rent it out"],
     [patt |-> <<"6", "+", "\\s*", "m", "o", "n", "t", "h", "s">>,
      label |-> "6+ months away"],
     [patt |-> <<"3", "-", "6", "\\s*", "m", "o", "n", "t", "h", "s">>,
      label |-> "3-6 months away"],
     [patt |-> <<"l", "e", "s", "s", " ", "t", "h", "a", "n", " ", "3", " ",
                 "m", "o", "n", "t", "h", "s">>,
      label |-> "Less than 3 months"],
     [patt |-> <<"a", "l", "r", "e", "a", "d", "y", " ", "e", "n", "d", "e", "d">>,
      label |-> "It's already ended"],
     [patt |-> <<"C", "h", "e", "c", "k", " ", "h", "e", "r", "e">>,
      label |-> "Check here"] >>

ClickStep(label, idx) ==
  [action |-> "click", label |-> label, text |-> Absent, idx |-> idx]

TextStep(msg, idx) ==
  [action |-> Absent, label |-> Absent, text |-> msg, idx |-> idx]

\* re.search(patt, msg, flags=re.I) for each entry k of click_map, tabulated once
\* over Strings
SearchTab ==
  UNION {IF re_search(click_map[k].patt, Chars[m]) THEN {<<k, m>>} ELSE {} :
           k \in DOMAIN click_map, m \in Strings}

\* the row compiled with the last matching pattern of the table
compile_row_last_match(msg, idx) ==
  LET hits == {k \in DOMAIN click_map : <<k, msg>> \in SearchTab}
  IN  IF hits # {}
        THEN ClickStep(click_map[CHOOSE k \in hits : \A h \in hits : k >= h].label, idx)
        ELSE TextStep(msg, idx)

\* the step one row of the human participant compiles to (lines 141-148)
compile_row(msg, idx) ==
  LET hits == {k \in DOMAIN click_map : <<k, msg>> \in SearchTab}
  IN  IF hits # {}
        THEN ClickStep(click_map[CHOOSE k \in hits : \A h \in hits : k <= h].label, idx)
        ELSE TextStep(msg, idx)

context_turn(row) ==
  LET who == strip(row.Speaker)
      msg == strip(row.Message)
  IN  [role  |-> IF startswith(lower(Chars[who]), Chars["compare"])
                   THEN "assistant" ELSE "user",
       agent |-> IF who # "" THEN who ELSE "Unknown",
       text  |-> msg]

\* the speaker matched by its beginning
is_action_row_prefix(row) ==
  /\ startswith(lower(Chars[strip(row.Speaker)]), Chars["anant"])
  /\ strip(row.Message) # ""

\* the speaker compared without lower()
is_action_row_cased(row) ==
  /\ Chars[strip(row.Speaker)] = Chars["anant"]
  /\ strip(row.Message) # ""

is_action_row(row) ==
  /\ lower(Chars[strip(row.Speaker)]) = Chars["anant"]
  /\ strip(row.Message) # ""

RECURSIVE steps_of(_, _)
steps_of(df, n) ==
  IF n = 0 THEN <<>>
  ELSE LET before == steps_of(df, n - 1)
       IN  IF is_action_row(df[n])
             THEN Append(before, compile_row(strip(df[n].Message), Len(before) + 1))
             ELSE before

build_steps_from_excel(df) ==
  [steps   |-> steps_of(df, Len(df)),
   context |-> [n \in 1..Len(df) |-> context_turn(df[n])]]

(***************************************************************************)
(* CHOICE_PREFERENCES (run_scenario1, lines 304-318): one pass over the    *)
(* context turns, a later match overwriting an earlier one.                *)
(***************************************************************************)
occupancy_of(txt, old) ==
  IF has(txt, "live in it") THEN "Live in it"
  ELSE IF has(txt, "rent it out") THEN "Rent it out"
  ELSE old

term_end_of(txt, old) ==
  IF has(txt, "6+ months") THEN "6+ months away"
  ELSE IF has(txt, "3-6 months") \/ has(txt, "3 -- 6 months") \/ has(txt, "3--6 months")
    THEN "3-6 months away"
  ELSE IF has(txt, "less than 3 months") THEN "Less than 3 months"
  ELSE IF has(txt, "already ended") THEN "It's already ended"
  ELSE old

\* the scan keeping the first match of a category
RECURSIVE choice_preferences_first(_, _)
choice_preferences_first(context, n) ==
  IF n = 0 THEN [term_end |-> Absent, occupancy |-> Absent]
  ELSE LET old == choice_preferences_first(context, n - 1)
       IN  [term_end  |-> IF old.term_end # Absent THEN old.term_end
                          ELSE term_end_of(context[n].text, old.term_end),
            occupancy |-> IF old.occupancy # Absent THEN old.occupancy
                          ELSE occupancy_of(context[n].text, old.occupancy)]

RECURSIVE choice_preferences(_, _)
choice_preferences(context, n) ==
  IF n = 0 THEN [term_end |-> Absent, occupancy |-> Absent]
  ELSE LET old == choice_preferences(context, n - 1)
       IN  [term_end  |-> term_end_of(context[n].text, old.term_end),
            occupancy |-> occupancy_of(context[n].text, old.occupancy)]

PROGRESS_BUTTONS ==
  << "Compare live mortgage deals", "Get an expert recommendation", "Continue",
     "Next", "Compare deals", "Start comparison", "Proceed", "OK" >>

term_end_set ==
  {"6+ months away", "3-6 months away", "Less than 3 months", "It's already ended"}

occupancy_set == {"Live in it", "Rent it out"}

(***************************************************************************)
(* The page.  A run sees a script of screens: the n-th call of             *)
(* observe_current_buttons returns entry n, the last entry staying once    *)
(* the script is used up.  reply is what the page answers to the           *)
(* operations of the run: sent is the result of try_send_message, ok the   *)
(* result of click_button_by_text.                                         *)
(***************************************************************************)
MaxScript == 2

Screens ==
  { <<>>,
    <<"Live in it", "Rent it out">>,
    <<"3-6 months away", "6+ months away">>,
    <<"Check here">>,
    <<"Continue">> }

\* screens that show several progression labels at once
ProgressScreens ==
  { <<"Continue", "Compare live mortgage deals">>,
    <<"Next", "Continue">>,
    <<"Proceed", "COMPARE LIVE MORTGAGE DEALS">> }

\* screens that show one label of a category, or two
CategoryScreens ==
  { <<"3-6 months away">>,
    <<"3-6 months away", "6+ months away">>,
    <<"Rent it out">>,
    <<"Live in it", "Rent it out">> }

Responses == [sent : BOOLEAN, ok : BOOLEAN]

Scripts == UNION {[1..n -> Screens] : n \in 1..MaxScript}

\* page.screenshot(): works, fails for the path of BrowserController.screenshot
\* only, or fails for every path
ShotSinks == {"ok", "primary_fails", "all_fail"}

\* texts of the consent banner the start page may show
Banners == {{}, {"Got it", "Close"}}

WelcomeTranscript ==
  << [Speaker |-> "Compare", Message |-> "Welcome"],
     [Speaker |-> "Anant",   Message |-> "Live in it"],
     [Speaker |-> "Anant",   Message |-> "looking good"] >>

\* a Click ahead of two free texts; the term end named is not the default
QueueTranscript ==
  << [Speaker |-> "Anant", Message |-> "6+ months away"],
     [Speaker |-> "Anant", Message |-> "looking good"],
     [Speaker |-> "Anant", Message |-> "Welcome"] >>

\* the transcript files of the runs explored
Transcripts ==
  { WelcomeTranscript,
    << [Speaker |-> "Compare", Message |-> "When does your deal end?"],
       [Speaker |-> "Anant",   Message |-> "3-6 months"],
       [Speaker |-> "Anant",   Message |-> "Check here please"] >>,
    << [Speaker |-> "Anant",   Message |-> "Rent it out"],
       [Speaker |-> "Anant",   Message |-> "looking good"],
       [Speaker |-> "Anant",   Message |-> "Rent it out"] >>,
    << [Speaker |-> "Anant",   Message |-> "Live in it"],
       [Speaker |-> "Anant",   Message |-> "3-6 months"],
       [Speaker |-> "Anant",   Message |-> "Rent it out"] >> }

\* the header rows of the transcript files explored
StdHeader == <<"Speaker", "Message">>

Headers ==
  { StdHeader,
    <<" speaker ", "MESSAGE", "Notes">>,
    <<"Speaker", "Text">>,
    <<"Message">> }

\* the loader without its check of the columns
load_transcript_any_unchecked(header) ==
  IF header = <<Absent>> THEN "FileNotFoundError" ELSE "ok"

\* _load_transcript_any: the file must exist and, with the headers stripped and
\* compared in lower case, have a speaker and a message column
load_transcript_any(header) ==
  IF header = <<Absent>> THEN "FileNotFoundError"
  ELSE LET lowered == {lower(Chars[strip(header[k])]) : k \in DOMAIN header}
       IN  IF Chars["speaker"] \notin lowered \/ Chars["message"] \notin lowered
             THEN "ValueError"
             ELSE "ok"

\* for _ in range(80)
MaxTicks == 80

VARIABLES
  scenario,           \* the scenario function that runs
  pc,                 \* where the scenario function stands
  columns,            \* header of the transcript file, <<Absent>> when there is no file
  df,                 \* the rows of the transcript file
  script,             \* the screens the run will see
  reply,              \* what the page answers to typing and clicking
  shots,              \* how page.screenshot behaves in this run
  obs,                \* calls of observe_current_buttons made so far
  tick,               \* iterations of the main loop started so far
  visible,            \* the local variable visible
  pending_steps,
  answered,
  CHOICE_PREFERENCES,
  transcript,         \* the event list the report is rendered from
  report_file,        \* report_path: whether it exists, its rows, the writes made
  browser,            \* "new", "open" or "closed"
  model_client,       \* factory.model_client: "none", "open" or "closed"
  AIQA_SKIP_LLM,      \* os.getenv("AIQA_SKIP_LLM") as line 443 read it
  agent_runs,         \* calls of factory.testing_agent.run: how each ended
  error,              \* history: the failure that left the scenario function
  observed,           \* history: what line 355 returned in the last tick
  fired,              \* history: the rule the last tick took
  executed,           \* history: idx of the steps handed to answer_choice / type_and_log
  nactions,           \* history: calls of answer_choice / type_and_log made by the loop
  stop,               \* history: how the loop ended
  ground_truth,       \* whether the ground-truth file of scenario 2 exists
  similarity_threshold,
  rag_answer,
  text_a,             \* arguments of the call of semantic_agreement
  text_b,
  threshold,
  result,             \* what that call did
  emb_made,           \* OpenAIEmbeddings objects built by semantic_agreement
  emb_queries,        \* embed_query calls made by semantic_agreement
  disk,               \* the files of the log and report paths
  procs,              \* the scenario runs that use those files
  appended,           \* history: the rows handed to append_rows, by path, in call order
  page,               \* the page as a BrowserController helper called on its own finds it
  args,               \* the arguments of that call
  ret                 \* what that call did

\* the variables of run_scenario2 and semantic_agreement
rag_vars ==
  << ground_truth, similarity_threshold, rag_answer, text_a, text_b, threshold,
     result, emb_made, emb_queries >>

\* the variables of the helpers that are also run on their own
unit_vars == << disk, procs, appended, page, args, ret >>

vars ==
  << scenario, pc, columns, df, script, reply, shots, obs, tick, visible,
     pending_steps, answered, CHOICE_PREFERENCES, transcript, report_file, browser,
     model_client, AIQA_SKIP_LLM, agent_runs, error, observed, fired, executed,
     nactions, stop, rag_vars, unit_vars >>

PageAt(n) == IF n <= Len(script) THEN script[n] ELSE script[Len(script)]

NoShot == <<>>

\* BrowserController.screenshot (the definition that is in force, line 252)
screenshot(name) ==
  IF shots = "ok" THEN <<"files/screenshots", name>> ELSE <<"raise">>

\* _safe_screenshot
safe_screenshot(name_prefix) ==
  IF screenshot(name_prefix) # <<"raise">> THEN screenshot(name_prefix)
  ELSE IF shots = "primary_fails" THEN <<"files/shots", name_prefix, "ts">>
  ELSE NoShot

Event(role, agent, text, shot) ==
  [role |-> role, agent |-> agent, text |-> text, screenshot |-> shot]

\* semantic_agreement not called
NoResult == [status |-> "none", is_match |-> FALSE, score |-> 0]

NoReport == [exists |-> FALSE, rows |-> <<>>, writes |-> 0, path |-> Absent]

\* run_scenario2 and semantic_agreement at rest
RagIdle ==
  /\ ground_truth = FALSE
  /\ similarity_threshold = 0
  /\ rag_answer = Absent
  /\ text_a = Absent
  /\ text_b = Absent
  /\ threshold = 0
  /\ result = NoResult
  /\ emb_made = 0
  /\ emb_queries = 0

\* run_scenario1 at rest
ReplayIdle ==
  /\ columns = StdHeader
  /\ df = <<>>
  /\ script = << <<>> >>
  /\ reply = [sent |-> FALSE, ok |-> FALSE]
  /\ shots = "ok"
  /\ obs = 0
  /\ tick = 0
  /\ visible = <<>>
  /\ pending_steps = <<>>
  /\ answered = [term_end |-> FALSE, occupancy |-> FALSE]
  /\ CHOICE_PREFERENCES = [term_end |-> Absent, occupancy |-> Absent]
  /\ AIQA_SKIP_LLM = "unread"
  /\ agent_runs = <<>>
  /\ observed = <<>>
  /\ fired = "none"
  /\ executed = <<>>
  /\ nactions = 0
  /\ stop = "none"

(***************************************************************************)
(* The files of a run.  cfg["artifacts"] names the log workbook and the    *)
(* report directory; a path is the pair of a directory and a file name.    *)
(* A file is the rows it holds, a workbook cell by cell.                   *)
(***************************************************************************)
LogPaths == {<<"logs", "compare_dialog.xlsx">>, <<"tmp/logs", "compare_dialog.xlsx">>}

ReportDirs == {"reports", "tmp/reports"}

\* cfg["artifacts"]: logs_excel and reports_dir
Cfgs == [logs_excel : LogPaths, reports_dir : ReportDirs]

\* the file name each scenario function gives its report
report_name(s) ==
  IF s = "scenario1" THEN "scenario1_report.html" ELSE "scenario2_rag_report.html"

report_path(proc) == <<proc.cfg.reports_dir, report_name(proc.scenario)>>

Paths ==
  LogPaths \cup {<<d, report_name(s)>> : d \in ReportDirs, s \in {"scenario1", "scenario2"}}

NoFile == [exists |-> FALSE, cells |-> <<>>]

NoPage == [elements |-> <<>>]

NoCall == [status |-> "none"]

\* no helper called on its own, no file written
UnitIdle ==
  /\ disk = [p \in Paths |-> NoFile]
  /\ procs = <<>>
  /\ appended = [p \in Paths |-> <<>>]
  /\ page = NoPage
  /\ args = <<>>
  /\ ret = NoCall

\* what both scenario functions start from
Fresh ==
  /\ transcript = <<>>
  /\ report_file = NoReport
  /\ browser = "new"
  /\ model_client = "none"
  /\ error = "none"

\* a run of run_scenario1: a readable transcript with any page, the welcome
\* transcript with a page of several progression labels, a transcript with a
\* page of category labels, or a transcript file that is missing or has
\* another header
Init ==
  /\ scenario = "scenario1"
  /\ UnitIdle
  /\ pc = "start"
  /\ \/ /\ columns = StdHeader
        /\ df \in Transcripts
        /\ script \in Scripts
        /\ reply \in Responses
        /\ shots \in ShotSinks
     \/ /\ columns = StdHeader
        /\ df = WelcomeTranscript
        /\ script \in {<<screen>> : screen \in ProgressScreens}
        /\ reply \in Responses
        /\ shots = "ok"
     \/ /\ columns = StdHeader
        /\ df \in {WelcomeTranscript, QueueTranscript}
        /\ script \in UNION {[1..n -> CategoryScreens] : n \in 1..2}
        /\ reply \in Responses
        /\ shots = "ok"
     \/ /\ columns \in (Headers \cup {<<Absent>>}) \ {StdHeader}
        /\ df = WelcomeTranscript
        /\ script = << <<>> >>
        /\ reply = [sent |-> FALSE, ok |-> FALSE]
        /\ shots = "ok"
  /\ obs = 0
  /\ tick = 0
  /\ visible = <<>>
  /\ pending_steps = <<>>
  /\ answered = [term_end |-> FALSE, occupancy |-> FALSE]
  /\ CHOICE_PREFERENCES = [term_end |-> Absent, occupancy |-> Absent]
  /\ AIQA_SKIP_LLM = "unread"
  /\ agent_runs = <<>>
  /\ observed = <<>>
  /\ fired = "none"
  /\ executed = <<>>
  /\ nactions = 0
  /\ stop = "none"
  /\ Fresh
  /\ RagIdle

(***************************************************************************)
(* AgentFactory helpers.  type_and_log and click_and_log take a screenshot *)
(* through BrowserController.screenshot with no handler around it, so the  *)
(* helper raises when that call does.                                      *)
(***************************************************************************)
type_and_log(r) ==
  IF screenshot("after-say") = <<"raise">> THEN "raise"
  ELSE IF r.sent THEN "sent" ELSE "not sent"

click_and_log(r) ==
  IF screenshot("after-click") = <<"raise">> THEN "raise"
  ELSE IF r.ok THEN "ok" ELSE "not ok"

\* the first helper alone decides: no second attempt
answer_choice_no_fallback(r, prefer_click) ==
  IF ~prefer_click
    THEN IF type_and_log(r) = "raise" THEN "raise"
         ELSE IF type_and_log(r) = "sent" THEN "typed" ELSE "failed"
    ELSE IF click_and_log(r) = "raise" THEN "raise"
         ELSE IF click_and_log(r) = "ok" THEN "clicked" ELSE "failed"

answer_choice(r, prefer_click) ==
  IF ~prefer_click
    THEN IF type_and_log(r) = "raise" THEN "raise"
         ELSE IF type_and_log(r) = "sent" THEN "typed"
         ELSE IF click_and_log(r) = "raise" THEN "raise"
         ELSE IF click_and_log(r) = "ok" THEN "clicked" ELSE "failed"
    ELSE IF click_and_log(r) = "raise" THEN "raise"
         ELSE IF click_and_log(r) = "ok" THEN "clicked"
         ELSE IF type_and_log(r) = "raise" THEN "raise"
         ELSE IF type_and_log(r) = "sent" THEN "typed" ELSE "failed"

(***************************************************************************)
(* The rules of the main loop (run_scenario1, lines 361-426).              *)
(***************************************************************************)
labels_of(vis) == {vis[i] : i \in DOMAIN vis}

\* the progression label chosen by the order of the page, not of the list
next_progress_page_order(vis) ==
  LET hits == {i \in DOMAIN vis :
                 \E k \in DOMAIN PROGRESS_BUTTONS : in_lower(PROGRESS_BUTTONS[k], vis[i])}
      i    == CHOOSE i \in hits : \A h \in hits : i <= h
      ks   == {k \in DOMAIN PROGRESS_BUTTONS : in_lower(PROGRESS_BUTTONS[k], vis[i])}
  IN  IF hits = {} THEN Absent
      ELSE PROGRESS_BUTTONS[CHOOSE k \in ks : \A h \in ks : k <= h]

\* lines 362-369; Absent is None
next_progress(vis) ==
  LET hits == {k \in DOMAIN PROGRESS_BUTTONS :
                 \E b \in labels_of(vis) : in_lower(PROGRESS_BUTTONS[k], b)}
  IN  IF hits = {} THEN Absent
      ELSE IF \E b \in labels_of(vis) : has(b, "compare live mortgage deals")
        THEN "Compare live mortgage deals"
        ELSE PROGRESS_BUTTONS[CHOOSE k \in hits : \A h \in hits : k <= h]

term_end_due(vis, ans) ==
  ~ans.term_end /\ Cardinality(labels_of(vis) \cap term_end_set) >= 2

occupancy_due(vis, ans) ==
  ~ans.occupancy /\ Cardinality(labels_of(vis) \cap occupancy_set) >= 1

\* Rule C answered once only
check_here_visible_once(vis) ==
  /\ \E b \in labels_of(vis) : has(b, "check here")
  /\ \A n \in DOMAIN transcript : transcript[n].text[1] # "Chose product via"

check_here_visible(vis) == \E b \in labels_of(vis) : has(b, "check here")

\* the latest matching Click popped instead of the earliest
pop_matching_click_last(pending, vis) ==
  LET hits == {i \in DOMAIN pending :
                 /\ pending[i].action = "click"
                 /\ \E b \in labels_of(vis) : in_lower(pending[i].label, b)}
  IN  IF hits = {} THEN 0 ELSE CHOOSE i \in hits : \A h \in hits : i >= h

\* index of the step _pop_matching_click pops, 0 when it returns None
pop_matching_click(pending, vis) ==
  LET hits == {i \in DOMAIN pending :
                 /\ pending[i].action = "click"
                 /\ \E b \in labels_of(vis) : in_lower(pending[i].label, b)}
  IN  IF hits = {} THEN 0 ELSE CHOOSE i \in hits : \A h \in hits : i <= h

\* the latest free text popped instead of the earliest
pop_next_free_text_last(pending) ==
  LET hits == {i \in DOMAIN pending :
                 pending[i].text # Absent /\ pending[i].action = Absent}
  IN  IF hits = {} THEN 0 ELSE CHOOSE i \in hits : \A h \in hits : i >= h

\* index of the step _pop_next_free_text pops, 0 when it returns None
pop_next_free_text(pending) ==
  LET hits == {i \in DOMAIN pending :
                 pending[i].text # Absent /\ pending[i].action = Absent}
  IN  IF hits = {} THEN 0 ELSE CHOOSE i \in hits : \A h \in hits : i <= h

\* pending_steps[i] read where it should be popped
pop_keeps_step(pending, i) == pending

\* list.pop(i)
pop(pending, i) == SubSeq(pending, 1, i - 1) \o SubSeq(pending, i + 1, Len(pending))

\* the transcript click tried before the category rules
decide_click_first(vis, ans, pending) ==
  IF next_progress(vis) # Absent THEN "P"
  ELSE IF pop_matching_click(pending, vis) # 0 THEN "D"
  ELSE IF term_end_due(vis, ans) THEN "A"
  ELSE IF occupancy_due(vis, ans) THEN "B"
  ELSE IF check_here_visible(vis) THEN "C"
  ELSE IF pop_next_free_text(pending) # 0 THEN "E"
  ELSE "F"

\* the branch one iteration takes: the if / continue chain of lines 370-440
decide(vis, ans, pending) ==
  IF next_progress(vis) # Absent THEN "P"
  ELSE IF term_end_due(vis, ans) THEN "A"
  ELSE IF occupancy_due(vis, ans) THEN "B"
  ELSE IF check_here_visible(vis) THEN "C"
  ELSE IF pop_matching_click(pending, vis) # 0 THEN "D"
  ELSE IF pop_next_free_text(pending) # 0 THEN "E"
  ELSE "F"

\* range(81) in place of range(80)
loop_pc_one_more(t) == IF t <= MaxTicks THEN "loop" ELSE "summary"

\* the header of the loop, reached again after a continue
loop_pc(t) == IF t < MaxTicks THEN "loop" ELSE "summary"

loop_stop(t) == IF t < MaxTicks THEN "none" ELSE "cap"

\* lines 351-356 of one iteration; again is the number of later observations
\* the iteration makes
Observe(rule, again) ==
  /\ pc = "loop"
  /\ decide(PageAt(obs + 1), answered, pending_steps) = rule
  /\ obs' = obs + 1 + again
  /\ tick' = tick + 1
  /\ observed' = PageAt(obs + 1)
  /\ fired' = rule

\* the iteration appends ev and continues, or the exception leaves the run
Conclude(how, ev) ==
  IF how = "raise"
    THEN /\ pc' = "raised"
         /\ stop' = "raised"
         /\ error' = "screenshot"
         /\ transcript' = transcript
    ELSE /\ pc' = loop_pc(tick + 1)
         /\ stop' = loop_stop(tick + 1)
         /\ error' = error
         /\ transcript' = Append(transcript, ev)

(***************************************************************************)
(* run_scenario1 before the loop.                                          *)
(***************************************************************************)
\* lines 260-277: load and compile the transcript (a file that cannot be loaded
\* raises here), build the factory, start the event list with the context
Start ==
  /\ pc = "start"
  /\ scenario = "scenario1"
  /\ IF load_transcript_any(columns) # "ok"
       THEN /\ pc' = "raised"
            /\ stop' = "raised"
            /\ error' = load_transcript_any(columns)
            /\ UNCHANGED << transcript, model_client >>
       ELSE /\ transcript' =
                 LET context == build_steps_from_excel(df).context
                 IN  [n \in 1..Len(context) |->
                        Event(context[n].role, context[n].agent, <<context[n].text>>,
                              <<Absent>>)]
            /\ model_client' = "open"
            /\ pc' = "open"
            /\ UNCHANGED << stop, error >>
  /\ UNCHANGED << scenario, unit_vars, rag_vars, columns, df, script, reply, shots, obs, tick,
                  visible, pending_steps, answered, CHOICE_PREFERENCES, report_file,
                  browser, AIQA_SKIP_LLM, agent_runs, observed, fired, executed,
                  nactions >>

\* lines 280-288: launch and goto may raise; nothing catches them
OpenApp ==
  /\ pc = "open"
  /\ \E outcome \in {"ok", "launch raises", "goto raises"} :
       /\ browser' = IF outcome = "launch raises" THEN "new" ELSE "open"
       /\ pc' = IF outcome = "ok" THEN "consent" ELSE "raised"
       /\ stop' = IF outcome = "ok" THEN stop ELSE "raised"
       /\ error' = IF outcome = "launch raises" THEN "launch"
                 ELSE IF outcome = "goto raises" THEN "goto" ELSE error
       /\ transcript' =
            IF outcome = "ok"
              THEN Append(transcript,
                          Event("action", "TestingAgent", <<"Opened app.">>,
                                safe_screenshot("after-open")))
              ELSE transcript
  /\ UNCHANGED << scenario, unit_vars, rag_vars, columns, df, script, reply, shots, obs, tick, visible, pending_steps, answered,
                  CHOICE_PREFERENCES, report_file, observed, fired,
                  executed, nactions >>
  /\ UNCHANGED << model_client, AIQA_SKIP_LLM, agent_runs >>

ConsentLabels == <<"Accept all cookies", "Accept", "I agree", "Got it", "Close">>

\* lines 291-347: the consent banner, then the locals of the runner
Consent ==
  /\ pc = "consent"
  /\ \E banner \in Banners :
       LET hits == {k \in DOMAIN ConsentLabels :
                      \E t \in banner : in_lower(ConsentLabels[k], t)}
           label == ConsentLabels[CHOOSE k \in hits : \A h \in hits : k <= h]
       IN  transcript' =
             IF hits = {} THEN transcript
             ELSE Append(transcript,
                         Event("action", "TestingAgent", <<"Clicked consent:", label>>,
                               safe_screenshot("after-cookie")))
  /\ CHOICE_PREFERENCES' =
       LET context == build_steps_from_excel(df).context
       IN  choice_preferences(context, Len(context))
  /\ pending_steps' = build_steps_from_excel(df).steps
  /\ answered' = [term_end |-> FALSE, occupancy |-> FALSE]
  /\ pc' = loop_pc(0)
  /\ UNCHANGED << scenario, unit_vars, rag_vars, columns, df, script, reply, shots, obs, tick, visible, report_file, browser,
                  observed, fired, executed, nactions, stop >>
  /\ UNCHANGED << model_client, AIQA_SKIP_LLM, agent_runs, error >>

(***************************************************************************)
(* One iteration of the main loop, one action per branch.                  *)
(***************************************************************************)
\* lines 370-376
RuleP ==
  /\ Observe("P", 0)
  /\ LET vis == PageAt(obs + 1)
         how == answer_choice(reply, FALSE)
     IN  Conclude(how,
           Event("action", "TestingAgent",
                 <<"Progressed via", next_progress(vis), "using", how>>,
                 safe_screenshot("after-progress")))
  /\ visible' = PageAt(obs + 1)
  /\ nactions' = nactions + 1
  /\ UNCHANGED << scenario, unit_vars, rag_vars, columns, df, script, reply, shots, pending_steps, answered, CHOICE_PREFERENCES,
                  report_file, browser, executed >>
  /\ UNCHANGED << model_client, AIQA_SKIP_LLM, agent_runs >>

\* Rule A without answered["term_end"] = True
RuleA_no_mark ==
  /\ Observe("A", 0)
  /\ LET choice == IF CHOICE_PREFERENCES.term_end # Absent
                     THEN CHOICE_PREFERENCES.term_end ELSE "3-6 months away"
         how    == answer_choice(reply, FALSE)
     IN  Conclude(how,
           Event("action", "TestingAgent",
                 <<"Answered 'term end' ->", choice, "via", how>>,
                 safe_screenshot("after-term-end-answer")))
  /\ visible' = PageAt(obs + 1)
  /\ nactions' = nactions + 1
  /\ UNCHANGED << scenario, unit_vars, rag_vars, columns, df, script, reply, shots, pending_steps, answered, CHOICE_PREFERENCES,
                  report_file, browser, executed >>
  /\ UNCHANGED << model_client, AIQA_SKIP_LLM, agent_runs >>

\* Rule A answering with the default whatever the transcript named
RuleA_always_default ==
  /\ Observe("A", 0)
  /\ LET choice == "3-6 months away"
         how    == answer_choice(reply, FALSE)
     IN  /\ Conclude(how,
              Event("action", "TestingAgent",
                    <<"Answered 'term end' ->", choice, "via", how>>,
                    safe_screenshot("after-term-end-answer")))
         /\ answered' = IF how = "raise" THEN answered
                        ELSE [answered EXCEPT !.term_end = TRUE]
  /\ visible' = PageAt(obs + 1)
  /\ nactions' = nactions + 1
  /\ UNCHANGED << scenario, unit_vars, rag_vars, columns, df, script, reply, shots, pending_steps, CHOICE_PREFERENCES,
                  report_file, browser, executed >>
  /\ UNCHANGED << model_client, AIQA_SKIP_LLM, agent_runs >>

\* Rule A marking its category only when the answer went through
RuleA_marks_unless_failed ==
  /\ Observe("A", 0)
  /\ LET choice == IF CHOICE_PREFERENCES.term_end # Absent
                     THEN CHOICE_PREFERENCES.term_end ELSE "3-6 months away"
         how    == answer_choice(reply, FALSE)
     IN  /\ Conclude(how,
              Event("action", "TestingAgent",
                    <<"Answered 'term end' ->", choice, "via", how>>,
                    safe_screenshot("after-term-end-answer")))
         /\ answered' = IF how \in {"raise", "failed"} THEN answered
                        ELSE [answered EXCEPT !.term_end = TRUE]
  /\ visible' = PageAt(obs + 1)
  /\ nactions' = nactions + 1
  /\ UNCHANGED << scenario, unit_vars, rag_vars, columns, df, script, reply, shots, pending_steps, CHOICE_PREFERENCES,
                  report_file, browser, executed >>
  /\ UNCHANGED << model_client, AIQA_SKIP_LLM, agent_runs >>

\* lines 379-387
RuleA ==
  /\ Observe("A", 0)
  /\ LET choice == IF CHOICE_PREFERENCES.term_end # Absent
                     THEN CHOICE_PREFERENCES.term_end ELSE "3-6 months away"
         how    == answer_choice(reply, FALSE)
     IN  /\ Conclude(how,
              Event("action", "TestingAgent",
                    <<"Answered 'term end' ->", choice, "via", how>>,
                    safe_screenshot("after-term-end-answer")))
         /\ answered' = IF how = "raise" THEN answered
                        ELSE [answered EXCEPT !.term_end = TRUE]
  /\ visible' = PageAt(obs + 1)
  /\ nactions' = nactions + 1
  /\ UNCHANGED << scenario, unit_vars, rag_vars, columns, df, script, reply, shots, pending_steps, CHOICE_PREFERENCES,
                  report_file, browser, executed >>
  /\ UNCHANGED << model_client, AIQA_SKIP_LLM, agent_runs >>

\* Rule B building the flags anew instead of setting its own
RuleB_rebuilds_flags ==
  /\ Observe("B", 0)
  /\ LET choice == IF CHOICE_PREFERENCES.occupancy # Absent
                     THEN CHOICE_PREFERENCES.occupancy ELSE "Live in it"
         how    == answer_choice(reply, FALSE)
     IN  /\ Conclude(how,
              Event("action", "TestingAgent",
                    <<"Answered 'occupancy' ->", choice, "via", how>>,
                    safe_screenshot("after-occupancy-answer")))
         /\ answered' = IF how = "raise" THEN answered
                        ELSE [term_end |-> FALSE, occupancy |-> TRUE]
  /\ visible' = PageAt(obs + 1)
  /\ nactions' = nactions + 1
  /\ UNCHANGED << scenario, unit_vars, rag_vars, columns, df, script, reply, shots, pending_steps, CHOICE_PREFERENCES,
                  report_file, browser, executed >>
  /\ UNCHANGED << model_client, AIQA_SKIP_LLM, agent_runs >>

\* lines 390-398
RuleB ==
  /\ Observe("B", 0)
  /\ LET choice == IF CHOICE_PREFERENCES.occupancy # Absent
                     THEN CHOICE_PREFERENCES.occupancy ELSE "Live in it"
         how    == answer_choice(reply, FALSE)
     IN  /\ Conclude(how,
              Event("action", "TestingAgent",
                    <<"Answered 'occupancy' ->", choice, "via", how>>,
                    safe_screenshot("after-occupancy-answer")))
         /\ answered' = IF how = "raise" THEN answered
                        ELSE [answered EXCEPT !.occupancy = TRUE]
  /\ visible' = PageAt(obs + 1)
  /\ nactions' = nactions + 1
  /\ UNCHANGED << scenario, unit_vars, rag_vars, columns, df, script, reply, shots, pending_steps, CHOICE_PREFERENCES,
                  report_file, browser, executed >>
  /\ UNCHANGED << model_client, AIQA_SKIP_LLM, agent_runs >>

\* Rule C without its continue: the iteration goes on to the free-text branch
RuleC_no_continue ==
  /\ Observe("C", 0)
  /\ LET vis == PageAt(obs + 1)
         how == answer_choice(reply, FALSE)
         i    == pop_next_free_text(pending_steps)
         ev   == Event("action", "TestingAgent", <<"Chose product via", how>>,
                       safe_screenshot("after-check-here"))
     IN  IF how = "raise" \/ i = 0
           THEN /\ Conclude(how, ev)
                /\ nactions' = nactions + 1
                /\ UNCHANGED << pending_steps, executed >>
           ELSE /\ transcript' =
                     transcript \o
                       << ev, Event("user", "You", <<pending_steps[i].text>>,
                                    safe_screenshot("after-free-text")) >>
                /\ pending_steps' = pop(pending_steps, i)
                /\ executed' = Append(executed, pending_steps[i].idx)
                /\ nactions' = nactions + 2
                /\ pc' = loop_pc(tick + 1)
                /\ stop' = loop_stop(tick + 1)
                /\ error' = error
  /\ visible' = PageAt(obs + 1)
  /\ UNCHANGED << scenario, unit_vars, rag_vars, columns, df, script, reply, shots, answered, CHOICE_PREFERENCES,
                  report_file, browser >>
  /\ UNCHANGED << model_client, AIQA_SKIP_LLM, agent_runs >>

\* lines 401-407
RuleC ==
  /\ Observe("C", 0)
  /\ LET vis == PageAt(obs + 1)
         how == answer_choice(reply, FALSE)
     IN  Conclude(how,
           Event("action", "TestingAgent", <<"Chose product via", how>>,
                 safe_screenshot("after-check-here")))
  /\ visible' = PageAt(obs + 1)
  /\ nactions' = nactions + 1
  /\ UNCHANGED << scenario, unit_vars, rag_vars, columns, df, script, reply, shots, pending_steps, answered, CHOICE_PREFERENCES,
                  report_file, browser, executed >>
  /\ UNCHANGED << model_client, AIQA_SKIP_LLM, agent_runs >>

\* lines 410-417
RuleD ==
  /\ Observe("D", 0)
  /\ LET vis        == PageAt(obs + 1)
         i          == pop_matching_click(pending_steps, vis)
         next_click == pending_steps[i]
         how        == answer_choice(reply, FALSE)
     IN  /\ pending_steps' = pop(pending_steps, i)
         /\ executed' = Append(executed, next_click.idx)
         /\ Conclude(how,
              Event("action", "TestingAgent",
                    <<"Matched transcript choice", next_click.label, "via", how>>,
                    safe_screenshot("after-explicit-choice")))
  /\ visible' = PageAt(obs + 1)
  /\ nactions' = nactions + 1
  /\ UNCHANGED << scenario, unit_vars, rag_vars, columns, df, script, reply, shots, answered, CHOICE_PREFERENCES,
                  report_file, browser >>
  /\ UNCHANGED << model_client, AIQA_SKIP_LLM, agent_runs >>

\* lines 420-426: the result of type_and_log is not used
RuleE ==
  /\ Observe("E", 0)
  /\ LET i    == pop_next_free_text(pending_steps)
         nxt  == pending_steps[i]
         sent == type_and_log(reply)
     IN  /\ pending_steps' = pop(pending_steps, i)
         /\ executed' = Append(executed, nxt.idx)
         /\ Conclude(sent,
              Event("user", "You", <<nxt.text>>, safe_screenshot("after-free-text")))
  /\ visible' = PageAt(obs + 1)
  /\ nactions' = nactions + 1
  /\ UNCHANGED << scenario, unit_vars, rag_vars, columns, df, script, reply, shots, answered, CHOICE_PREFERENCES,
                  report_file, browser >>
  /\ UNCHANGED << model_client, AIQA_SKIP_LLM, agent_runs >>

\* for _ in range(3)
ScrollCycles == 3

\* lines 429-433: number of scroll_down + observe cycles made after n observations
scroll_cycles(n) ==
  LET found == {k \in 1..ScrollCycles : PageAt(n + k) # <<>>}
  IN  IF found = {} THEN ScrollCycles
      ELSE CHOOSE k \in found : \A h \in found : k <= h

\* Rule F without its break: the loop goes on after the idle event
RuleF_no_break ==
  /\ Observe("F", scroll_cycles(obs + 1))
  /\ visible' = PageAt(obs + 1 + scroll_cycles(obs + 1))
  /\ transcript' =
       Append(transcript,
              Event("info", "TestingAgent",
                    <<"No matching buttons or text left; pausing.">>,
                    safe_screenshot("idle-no-action")))
  /\ pc' = loop_pc(tick + 1)
  /\ stop' = loop_stop(tick + 1)
  /\ UNCHANGED << scenario, unit_vars, rag_vars, columns, df, script, reply, shots, pending_steps, answered, CHOICE_PREFERENCES,
                  report_file, browser, executed, nactions >>
  /\ UNCHANGED << model_client, AIQA_SKIP_LLM, agent_runs, error >>

\* lines 429-440
RuleF ==
  /\ Observe("F", scroll_cycles(obs + 1))
  /\ visible' = PageAt(obs + 1 + scroll_cycles(obs + 1))
  /\ transcript' =
       Append(transcript,
              Event("info", "TestingAgent",
                    <<"No matching buttons or text left; pausing.">>,
                    safe_screenshot("idle-no-action")))
  /\ pc' = "summary"
  /\ stop' = "idle"
  /\ UNCHANGED << scenario, unit_vars, rag_vars, columns, df, script, reply, shots, pending_steps, answered, CHOICE_PREFERENCES,
                  report_file, browser, executed, nactions >>
  /\ UNCHANGED << model_client, AIQA_SKIP_LLM, agent_runs, error >>

(***************************************************************************)
(* run_scenario1 after the loop.                                           *)
(***************************************************************************)
\* the summary step without its except clause
Summary_uncaught ==
  /\ pc = "summary"
  /\ \E llm \in {"skipped", "answers", "raises"} :
       /\ AIQA_SKIP_LLM' = IF llm = "skipped" THEN "1" ELSE Absent
       /\ agent_runs' =
            IF llm = "skipped" THEN agent_runs
            ELSE Append(agent_runs, IF llm = "answers" THEN "returned" ELSE "raised")
       /\ transcript' =
            IF llm = "raises" THEN transcript
            ELSE Append(transcript,
                        Event("assistant", "TestingAgent",
                              IF llm = "skipped" THEN <<"LLM summary skipped.">>
                              ELSE <<"summary_msg.content">>,
                              <<Absent>>))
       /\ pc' = IF llm = "raises" THEN "raised" ELSE "report"
  /\ UNCHANGED << scenario, unit_vars, rag_vars, columns, df, script, reply, shots, obs, tick,
                  visible, pending_steps, answered, CHOICE_PREFERENCES, report_file,
                  browser, model_client, error, observed, fired, executed, nactions,
                  stop >>

\* lines 443-453: with AIQA_SKIP_LLM=1 the agent is not run; otherwise it is run
\* and answers, or raises and the except clause makes the text
Summary ==
  /\ pc = "summary"
  /\ \E llm \in {"skipped", "answers", "raises"} :
       LET summary_text ==
             IF llm = "skipped" THEN <<"LLM summary skipped.">>
             ELSE IF llm = "answers" THEN <<"summary_msg.content">>
             ELSE <<"Summary failed:", "e">>
       IN  /\ AIQA_SKIP_LLM' = IF llm = "skipped" THEN "1" ELSE Absent
           /\ agent_runs' =
                IF llm = "skipped" THEN agent_runs
                ELSE Append(agent_runs, IF llm = "answers" THEN "returned" ELSE "raised")
           /\ transcript' =
                Append(transcript,
                       Event("assistant", "TestingAgent", summary_text, <<Absent>>))
  /\ pc' = "report"
  /\ UNCHANGED << scenario, unit_vars, rag_vars, columns, df, script, reply, shots, obs, tick,
                  visible, pending_steps, answered, CHOICE_PREFERENCES, report_file,
                  browser, model_client, error, observed, fired, executed, nactions,
                  stop >>

\* one <tr> of render_html_report: who, text and the image when there is one
report_row(turn) ==
  [who  |-> turn.agent,
   text |-> turn.text,
   img  |-> IF turn.screenshot \in {NoShot, <<Absent>>} THEN NoShot ELSE turn.screenshot]

\* the rows written last event first
render_html_report_reversed(events) ==
  [n \in 1..Len(events) |-> report_row(events[Len(events) + 1 - n])]

\* lines 163-176 and 196: rows_html
render_html_report(events) == [n \in 1..Len(events) |-> report_row(events[n])]

\* Path.write_text: the file at path holds rows, whatever it held
write_text(file, path, rows) ==
  [exists |-> TRUE, rows |-> rows, writes |-> file.writes + 1, path |-> path]

\* run_scenario1 going on to close without rendering the report
Report_not_written ==
  /\ pc = "report"
  /\ pc' = "close"
  /\ UNCHANGED << scenario, unit_vars, rag_vars, columns, df, script, reply, shots, obs, tick,
                  visible, pending_steps, answered, CHOICE_PREFERENCES, transcript,
                  report_file, browser, model_client, AIQA_SKIP_LLM, agent_runs, error,
                  observed, fired, executed, nactions, stop >>

\* line 456
Report ==
  /\ pc = "report"
  /\ report_file' = write_text(report_file, "reports_dir/scenario1_report.html",
                              render_html_report(transcript))
  /\ pc' = "close"
  /\ UNCHANGED << scenario, unit_vars, rag_vars, columns, df, script, reply, shots, obs, tick, visible, pending_steps, answered,
                  CHOICE_PREFERENCES, transcript, browser, observed, fired,
                  executed, nactions, stop >>
  /\ UNCHANGED << model_client, AIQA_SKIP_LLM, agent_runs, error >>

\* lines 459-460: B.close() stops the browser even when it raises (its finally
\* clause), and then factory.aclose() is not reached
Close ==
  /\ pc = "close"
  /\ \E outcome \in {"ok", "close raises"} :
       /\ browser' = "closed"
       /\ model_client' = IF outcome = "ok" THEN "closed" ELSE model_client
       /\ pc' = IF outcome = "ok" THEN "done" ELSE "raised"
       /\ error' = IF outcome = "ok" THEN error ELSE "close"
  /\ UNCHANGED << scenario, unit_vars, rag_vars, columns, df, script, reply, shots, obs, tick,
                  visible, pending_steps, answered, CHOICE_PREFERENCES, transcript,
                  report_file, AIQA_SKIP_LLM, agent_runs, observed, fired, executed,
                  nactions, stop >>

Next ==
  \/ Start
  \/ OpenApp
  \/ Consent
  \/ RuleP
  \/ RuleA
  \/ RuleB
  \/ RuleC
  \/ RuleD
  \/ RuleE
  \/ RuleF
  \/ Summary
  \/ Report
  \/ Close

Spec == Init /\ [][Next]_vars

TypeOK ==
  /\ pc \in {"start", "open", "consent", "loop", "summary", "report", "close",
             "done", "raised"}
  /\ tick \in 0..MaxTicks

(***************************************************************************)
(* semantic_agreement (aiauto/common/metrics.py).  A score is a cosine     *)
(* similarity in thousandths, and so is a threshold.  emb is what the      *)
(* embedding collaborator does in the call: langchain_openai could not be  *)
(* imported, OpenAIEmbeddings() raises, embed_query raises, or the two     *)
(* vectors have the cosine emb.score.  made and queries count the          *)
(* OpenAIEmbeddings objects built and the embed_query calls issued.        *)
(***************************************************************************)
Scores == {-1000, 0, 849, 850, 851, 1000}

Thresholds == {0, 850, 1000}

Embeddings ==
  {[client |-> c, score |-> 0] :
     c \in {"not importable", "not constructible", "query raises"}}
    \cup {[client |-> "ok", score |-> x] : x \in Scores}

Returned(is_match, score, made, queries) ==
  [status |-> "returned", is_match |-> is_match, score |-> score,
   made |-> made, queries |-> queries]

Raised(made, queries) ==
  [status |-> "raised", is_match |-> FALSE, score |-> 0,
   made |-> made, queries |-> queries]

\* semantic_agreement without its test of empty texts
semantic_agreement_no_guard(a, b, thr, emb) ==
  IF emb.client = "not importable" THEN Raised(0, 0)
  ELSE IF emb.client = "not constructible" THEN Raised(0, 0)
  ELSE IF emb.client = "query raises" THEN Raised(1, 1)
  ELSE Returned(emb.score >= thr, emb.score, 1, 2)

\* semantic_agreement answering no match when the collaborator cannot be built
semantic_agreement_swallows(a, b, thr, emb) ==
  IF a = "" \/ b = "" THEN Returned(FALSE, 0, 0, 0)
  ELSE IF emb.client \in {"not importable", "not constructible"}
    THEN Returned(FALSE, 0, 0, 0)
  ELSE IF emb.client = "query raises" THEN Raised(1, 1)
  ELSE Returned(emb.score >= thr, emb.score, 1, 2)

\* semantic_agreement with a strict comparison
semantic_agreement_strict(a, b, thr, emb) ==
  IF a = "" \/ b = "" THEN Returned(FALSE, 0, 0, 0)
  ELSE IF emb.client = "not importable" THEN Raised(0, 0)
  ELSE IF emb.client = "not constructible" THEN Raised(0, 0)
  ELSE IF emb.client = "query raises" THEN Raised(1, 1)
  ELSE Returned(emb.score > thr, emb.score, 1, 2)

semantic_agreement(a, b, thr, emb) ==
  IF a = "" \/ b = "" THEN Returned(FALSE, 0, 0, 0)
  ELSE IF emb.client = "not importable" THEN Raised(0, 0)
  ELSE IF emb.client = "not constructible" THEN Raised(0, 0)
  ELSE IF emb.client = "query raises" THEN Raised(1, 1)
  ELSE Returned(emb.score >= thr, emb.score, 1, 2)

\* the call leaves its arguments, its outcome and its use of the collaborator
Call(a, b, thr, emb) ==
  LET r == semantic_agreement(a, b, thr, emb)
  IN  /\ text_a' = a
      /\ text_b' = b
      /\ threshold' = thr
      /\ result' = [status |-> r.status, is_match |-> r.is_match, score |-> r.score]
      /\ emb_made' = emb_made + r.made
      /\ emb_queries' = emb_queries + r.queries

(***************************************************************************)
(* run_scenario2 (suites/ui/rag_validation/scenario2_rag_validation.py).   *)
(***************************************************************************)
validation_question == "When does my policy expire?"

ui_answer == "Your policy expires after 1 day -- that's October 25, 2025."

\* what the model of answer_with_rag replies, before strip()
Contents == {"in 24 hours", " in 24 hours ", "   ", "Not found in policy context."}

replay_vars ==
  << columns, df, script, reply, shots, obs, tick, visible, pending_steps, answered,
     CHOICE_PREFERENCES, AIQA_SKIP_LLM, agent_runs, observed, fired, executed,
     nactions, stop >>

Init2 ==
  /\ scenario = "scenario2"
  /\ UnitIdle
  /\ pc = "start"
  /\ ReplayIdle
  /\ Fresh
  /\ ground_truth \in BOOLEAN
  /\ similarity_threshold \in Thresholds
  /\ rag_answer = Absent
  /\ text_a = Absent
  /\ text_b = Absent
  /\ threshold = 0
  /\ result = NoResult
  /\ emb_made = 0
  /\ emb_queries = 0

\* lines 42-46: build the factory, launch, goto; nothing catches what they raise
OpenPage ==
  /\ pc = "start"
  /\ scenario = "scenario2"
  /\ model_client' = "open"
  /\ \E outcome \in {"ok", "launch raises", "goto raises"} :
       /\ browser' = IF outcome = "launch raises" THEN "new" ELSE "open"
       /\ pc' = IF outcome = "ok" THEN "ask" ELSE "raised"
       /\ error' = IF outcome = "launch raises" THEN "launch"
                 ELSE IF outcome = "goto raises" THEN "goto" ELSE error
  /\ UNCHANGED << scenario, unit_vars, replay_vars, rag_vars, transcript, report_file >>

\* lines 49-62
Ask ==
  /\ pc = "ask"
  /\ transcript' =
       transcript \o
         << Event("user", "Anant", <<validation_question>>, <<Absent>>),
            Event("assistant", "Compare Bot", <<ui_answer>>, <<Absent>>) >>
  /\ pc' = "rag"
  /\ UNCHANGED << scenario, unit_vars, replay_vars, rag_vars, report_file, browser, model_client,
                  error >>

\* lines 65-66: build_rag_pipeline_from_file raises when the file is missing or
\* OpenAIEmbeddings() cannot be built; answer_with_rag strips the reply
QueryRag ==
  /\ pc = "rag"
  /\ \E credentials \in BOOLEAN, content \in Contents :
       IF ~ground_truth \/ ~credentials
         THEN /\ pc' = "raised"
              /\ error' = IF ~ground_truth THEN "FileNotFoundError" ELSE "embeddings"
              /\ rag_answer' = rag_answer
         ELSE /\ pc' = "judge"
              /\ error' = error
              /\ rag_answer' = strip(content)
  /\ UNCHANGED << scenario, unit_vars, replay_vars, ground_truth, similarity_threshold, text_a,
                  text_b, threshold, result, emb_made, emb_queries, transcript,
                  report_file, browser, model_client >>

\* line 70
verdict_of(is_match) == IF is_match THEN "PASS" ELSE "FAIL"

\* lines 69-78
Judge ==
  /\ pc = "judge"
  /\ \E emb \in Embeddings :
       LET r == semantic_agreement(ui_answer, rag_answer, similarity_threshold, emb)
       IN  /\ Call(ui_answer, rag_answer, similarity_threshold, emb)
           /\ IF r.status = "raised"
                THEN /\ pc' = "raised"
                     /\ error' = "embeddings"
                     /\ transcript' = transcript
                ELSE /\ pc' = "write"
                     /\ error' = error
                     /\ transcript' =
                          Append(transcript,
                                 Event("judge", "RAG Validator",
                                       << verdict_of(r.is_match), r.score,
                                          similarity_threshold, validation_question,
                                          ui_answer, rag_answer >>,
                                       <<Absent>>))
  /\ UNCHANGED << scenario, unit_vars, replay_vars, ground_truth, similarity_threshold,
                  rag_answer, report_file, browser, model_client >>

\* one <tr> of the report of lines 81-85
html_row(t) == [who |-> t.agent, text |-> t.text, img |-> NoShot]

\* lines 81-93
WriteReport ==
  /\ pc = "write"
  /\ report_file' = write_text(report_file, "reports_dir/scenario2_rag_report.html",
                              [n \in 1..Len(transcript) |-> html_row(transcript[n])])
  /\ pc' = "quit"
  /\ UNCHANGED << scenario, unit_vars, replay_vars, rag_vars, transcript, browser, model_client,
                  error >>

\* lines 96-97
Quit ==
  /\ pc = "quit"
  /\ \E outcome \in {"ok", "close raises"} :
       /\ browser' = "closed"
       /\ model_client' = IF outcome = "ok" THEN "closed" ELSE model_client
       /\ pc' = IF outcome = "ok" THEN "done" ELSE "raised"
       /\ error' = IF outcome = "ok" THEN error ELSE "close"
  /\ UNCHANGED << scenario, unit_vars, replay_vars, rag_vars, transcript, report_file >>

Next2 ==
  \/ OpenPage
  \/ Ask
  \/ QueryRag
  \/ Judge
  \/ WriteReport
  \/ Quit

Spec2 == Init2 /\ [][Next2]_vars

(***************************************************************************)
(* Either scenario function, from its start.                               *)
(***************************************************************************)
InitRuns == Init \/ Init2

NextRuns ==
  \/ Next
  \/ Next2

SpecRuns == InitRuns /\ [][NextRuns]_vars

(***************************************************************************)
(* semantic_agreement called on its own, with any texts and threshold.     *)
(***************************************************************************)
Texts == {"", "   ", "in 24 hours", ui_answer}

InitMetrics ==
  /\ scenario = "none"
  /\ UnitIdle
  /\ pc = "call"
  /\ ReplayIdle
  /\ Fresh
  /\ ground_truth = FALSE
  /\ similarity_threshold = 0
  /\ rag_answer = Absent
  /\ text_a \in Texts
  /\ text_b \in Texts
  /\ threshold \in Thresholds
  /\ result = NoResult
  /\ emb_made = 0
  /\ emb_queries = 0

Agree ==
  /\ pc = "call"
  /\ \E emb \in Embeddings : Call(text_a, text_b, threshold, emb)
  /\ pc' = IF result'.status = "raised" THEN "raised" ELSE "returned"
  /\ UNCHANGED << scenario, unit_vars, replay_vars, ground_truth, similarity_threshold,
                  rag_answer, transcript, report_file, browser, model_client, error >>

NextMetrics == Agree

SpecMetrics == InitMetrics /\ [][NextMetrics]_vars

(***************************************************************************)
(* build_steps_from_excel called on its own, on any transcript of at most  *)
(* MaxRows rows: the steps go to pending_steps, the context to transcript. *)
(***************************************************************************)
MaxRows == 2

RowSpeakers == {"Anant", " ANANT ", "Compare", "Anant W"}

RowMessages ==
  { "Live in it", "  RENT it OUT  ", "Rent it out or Live in it", "6+months",
    "3-6   months", "3--6 months", "looking good", "   " }

Rows == [Speaker : RowSpeakers, Message : RowMessages]

InitCompile ==
  /\ scenario = "none"
  /\ UnitIdle
  /\ pc = "compile"
  /\ columns = StdHeader
  /\ df \in UNION {[1..n -> Rows] : n \in 1..MaxRows}
  /\ script = << <<>> >>
  /\ reply = [sent |-> FALSE, ok |-> FALSE]
  /\ shots = "ok"
  /\ obs = 0
  /\ tick = 0
  /\ visible = <<>>
  /\ pending_steps = <<>>
  /\ answered = [term_end |-> FALSE, occupancy |-> FALSE]
  /\ CHOICE_PREFERENCES = [term_end |-> Absent, occupancy |-> Absent]
  /\ AIQA_SKIP_LLM = "unread"
  /\ agent_runs = <<>>
  /\ observed = <<>>
  /\ fired = "none"
  /\ executed = <<>>
  /\ nactions = 0
  /\ stop = "none"
  /\ Fresh
  /\ RagIdle

\* manual_convo, context_transcript = build_steps_from_excel(...)
Compile ==
  /\ pc = "compile"
  /\ pending_steps' = build_steps_from_excel(df).steps
  /\ transcript' =
       LET context == build_steps_from_excel(df).context
       IN  [n \in 1..Len(context) |->
              Event(context[n].role, context[n].agent, <<context[n].text>>, <<Absent>>)]
  /\ pc' = "compiled"
  /\ UNCHANGED << scenario, unit_vars, rag_vars, columns, df, script, reply, shots, obs, tick,
                  visible, answered, CHOICE_PREFERENCES, report_file, browser,
                  model_client, AIQA_SKIP_LLM, agent_runs, error, observed, fired,
                  executed, nactions, stop >>

NextCompile == Compile

SpecCompile == InitCompile /\ [][NextCompile]_vars

(***************************************************************************)
(* ExcelLogger (agent_factory.py, lines 13-39).  append_rows reads the     *)
(* workbook when it exists, puts the new rows after the old ones and       *)
(* writes the whole workbook again.  A cell with nothing in it is read as  *)
(* a missing value, and a missing value or an empty string is written as   *)
(* a cell with nothing in it.                                              *)
(***************************************************************************)
NaN == "<nan>"

\* what both scenario functions and semantic_agreement leave alone here
run_vars ==
  << scenario, replay_vars, rag_vars, transcript, report_file, browser, model_client,
     error >>

\* no scenario function runs
RunIdle ==
  /\ scenario = "none"
  /\ ReplayIdle
  /\ Fresh
  /\ RagIdle

\* the row of log_message; the timestamp is the run and the call that made it
LogRow(timestamp, role, content) ==
  [timestamp |-> timestamp, agent |-> "TestingAgent", role |-> role,
   content |-> content]

\* pd.read_excel
read_excel(cells) ==
  [n \in 1..Len(cells) |-> [cells[n] EXCEPT !.content = IF @ = "" THEN NaN ELSE @]]

\* df.to_excel(writer, index=False), the writer opened with mode="w"
to_excel(frame) ==
  [exists |-> TRUE,
   cells  |-> [n \in 1..Len(frame) |->
                 [frame[n] EXCEPT !.content = IF @ = NaN THEN "" ELSE @]]]

\* lines 24-28: df
concat(existed, df_old, df_new) == IF existed THEN df_old \o df_new ELSE df_new

\* append_rows writing the new rows only
append_rows_overwrites(file, rows) == to_excel(rows)

\* ExcelLogger.append_rows, the file at self.filepath before and after
append_rows(file, rows) ==
  to_excel(concat(file.exists, read_excel(file.cells), rows))

\* calls of append_rows explored on one path or the other
MaxCalls == 3

\* what the helpers of AgentFactory log: a click, the buttons seen (here none)
LogEntries ==
  { [role |-> "click", content |-> "Check here -> True"],
    [role |-> "buttons(current)", content |-> ""] }

\* the cfgs of the runs that come one after another
LogCfgs == {cfg \in Cfgs : cfg.reports_dir = "reports"}

\* the lists append_rows is called with: one row (log_message) or two
Batches ==
  {<<e>> : e \in LogEntries} \cup {<<e, f>> : e \in LogEntries, f \in LogEntries}

\* a scenario run: its function, its cfg, where it stands, the locals of the
\* append_rows call it is in, the calls of append_rows it has made
Run(s, cfg, n) ==
  [scenario |-> s, cfg |-> cfg, run |-> n, pc |-> "start", df_old |-> <<>>,
   existed |-> FALSE, calls |-> 0]

\* runs one after another, each with its own ExcelLogger on the path of its cfg
InitLog ==
  /\ RunIdle
  /\ pc = "log"
  /\ disk = [p \in Paths |-> NoFile]
  /\ appended = [p \in Paths |-> <<>>]
  /\ \E cfg \in LogCfgs : procs = << [Run("scenario1", cfg, 1) EXCEPT !.pc = "log"] >>
  /\ page = NoPage
  /\ args = <<>>
  /\ ret = NoCall

\* AgentFactory.__init__ of the next run (line 62; ExcelLogger.__init__ makes the
\* directory and leaves the file); calls counts the calls of all runs
NextRun ==
  /\ pc = "log"
  /\ procs[1].run < MaxCalls
  /\ \E cfg \in LogCfgs :
       procs' = << [Run("scenario1", cfg, procs[1].run + 1)
                      EXCEPT !.pc = "log", !.calls = procs[1].calls] >>
  /\ UNCHANGED << pc, run_vars, disk, appended, page, args, ret >>

\* one call of append_rows, from its first line to its last
AppendRows ==
  /\ pc = "log"
  /\ procs[1].calls < MaxCalls
  /\ \E batch \in Batches :
       LET path == procs[1].cfg.logs_excel
           rows == [n \in 1..Len(batch) |->
                      LogRow(<<procs[1].run, procs[1].calls + 1, n>>,
                             batch[n].role, batch[n].content)]
       IN  /\ disk' = [disk EXCEPT ![path] = append_rows(disk[path], rows)]
           /\ appended' = [appended EXCEPT ![path] = @ \o rows]
  /\ procs' = [procs EXCEPT ![1].calls = @ + 1]
  /\ UNCHANGED << pc, run_vars, page, args, ret >>

NextLog ==
  \/ NextRun
  \/ AppendRows

SpecLog == InitLog /\ [][NextLog]_vars

(***************************************************************************)
(* Two scenario runs in separate execution contexts.  Each builds its own  *)
(* AgentFactory from its cfg; a run of run_scenario1 logs through its      *)
(* ExcelLogger, a run of run_scenario2 logs nothing; each writes its       *)
(* report.  The reading (line 25) and the writing (lines 29-30) of one     *)
(* append_rows call are two steps, and so another run may act in between.  *)
(***************************************************************************)
InitConcurrent ==
  /\ RunIdle
  /\ pc = "runs"
  /\ disk = [p \in Paths |-> NoFile]
  /\ appended = [p \in Paths |-> <<>>]
  /\ procs \in [1..2 -> {Run(s, cfg, 0) : s \in {"scenario1", "scenario2"}, cfg \in Cfgs}]
  /\ page = NoPage
  /\ args = <<>>
  /\ ret = NoCall

\* AgentFactory.__init__ (lines 50-62): a browser and an ExcelLogger of the run
Build(r) ==
  /\ procs[r].pc = "start"
  /\ procs' = [procs EXCEPT ![r].run = r,
                            ![r].pc = IF procs[r].scenario = "scenario1"
                                        THEN "log" ELSE "report"]
  /\ UNCHANGED << pc, run_vars, disk, appended, page, args, ret >>

\* append_rows, lines 23-28
ReadOld(r) ==
  /\ procs[r].pc = "log"
  /\ LET file == disk[procs[r].cfg.logs_excel]
     IN  procs' = [procs EXCEPT ![r].existed = file.exists,
                                ![r].df_old = read_excel(file.cells),
                                ![r].pc = "write"]
  /\ UNCHANGED << pc, run_vars, disk, appended, page, args, ret >>

\* append_rows, lines 29-30
WriteAll(r) ==
  /\ procs[r].pc = "write"
  /\ LET path == procs[r].cfg.logs_excel
         rows == << LogRow(<<r, procs[r].calls + 1, 1>>, "buttons(current)", "Continue") >>
     IN  /\ disk' = [disk EXCEPT
                       ![path] = to_excel(concat(procs[r].existed, procs[r].df_old, rows))]
         /\ appended' = [appended EXCEPT ![path] = @ \o rows]
  /\ procs' = [procs EXCEPT ![r].calls = @ + 1,
                            ![r].pc = IF procs[r].calls + 1 < MaxCalls
                                        THEN "log" ELSE "report"]
  /\ UNCHANGED << pc, run_vars, page, args, ret >>

\* the report of run r: its session
report_of(r) == << [session |-> r] >>

\* report_path.write_text (scenario1.py line 202, scenario2_rag_validation.py
\* line 93)
WriteOwnReport(r) ==
  /\ procs[r].pc = "report"
  /\ disk' = [disk EXCEPT ![report_path(procs[r])] =
                             [exists |-> TRUE, cells |-> report_of(r)]]
  /\ procs' = [procs EXCEPT ![r].pc = "done"]
  /\ UNCHANGED << pc, run_vars, appended, page, args, ret >>

NextConcurrent ==
  \/ \E r \in DOMAIN procs : Build(r)
  \/ \E r \in DOMAIN procs : ReadOld(r)
  \/ \E r \in DOMAIN procs : WriteAll(r)
  \/ \E r \in DOMAIN procs : WriteOwnReport(r)

SpecConcurrent == InitConcurrent /\ [][NextConcurrent]_vars

(***************************************************************************)
(* The wait helpers of BrowserController (lines 27-70), called on their    *)
(* own.  Times are milliseconds from the start of the call; Never is a     *)
(* condition that does not come.  The page tells when the network is idle, *)
(* whether the processing banner is there and when it hides, whether the   *)
(* send button is there, when it is visible and when it is enabled.        *)
(***************************************************************************)
Never == -1

Min(a, b) == IF a <= b THEN a ELSE b

\* the timeout of the fallback page.wait_for_timeout of lines 31 and 47
FallbackMs == 1500

\* the timeout of btn.wait_for(state="visible") at line 60
VisibleMs == 2000

\* page.wait_for_timeout(100) at line 69
PollMs == 100

\* timeout_ms=5000 at line 95
SendTimeoutMs == 5000

Waited(value, fallback) == [status |-> "returned", value |-> value, fallback |-> fallback]

TimeoutError == [status |-> "raised", value |-> "TimeoutError", fallback |-> 0]

\* wait_network_idle without its except clause
wait_network_idle_unguarded(t, pg) ==
  IF pg.idle_at # Never /\ pg.idle_at <= t THEN Waited("None", 0) ELSE TimeoutError

\* lines 27-31
wait_network_idle(t, pg) ==
  IF pg.idle_at # Never /\ pg.idle_at <= t
    THEN Waited("None", 0)
    ELSE Waited("None", Min(FallbackMs, t))

\* lines 36-47
wait_processing_done(timeout_ms, pg) ==
  IF /\ pg.banner.present
     /\ pg.banner.hidden_at # Never
     /\ pg.banner.hidden_at <= timeout_ms
    THEN Waited("None", 0)
    ELSE Waited("None", Min(FallbackMs, timeout_ms))

\* lines 55-70: the times at which the loop asks whether the button is enabled
polls(timeout_ms, send) ==
  LET first == IF ~send.present THEN 0
               ELSE IF send.visible_at # Never
                       /\ send.visible_at <= Min(timeout_ms, VisibleMs)
                 THEN send.visible_at
                 ELSE Min(timeout_ms, VisibleMs)
  IN  {t \in {first + PollMs * k : k \in 0..(timeout_ms \div PollMs)} : t < timeout_ms}

\* lines 55-70
wait_send_enabled(timeout_ms, send) ==
  /\ send.present
  /\ send.enabled_at # Never
  /\ \E t \in polls(timeout_ms, send) : send.enabled_at <= t

Timeouts == {1000, 2500, 4000, SendTimeoutMs, 8000}

Times == {0, 1000, 4900, SendTimeoutMs, Never}

SendButtons == [present : BOOLEAN, visible_at : {0, Never}, enabled_at : Times]

WaitOps == {"wait_network_idle", "wait_processing_done", "wait_send_enabled"}

InitWaits ==
  /\ RunIdle
  /\ pc = "call"
  /\ disk = [p \in Paths |-> NoFile]
  /\ procs = <<>>
  /\ appended = [p \in Paths |-> <<>>]
  /\ page \in [idle_at : Times, banner : [present : BOOLEAN, hidden_at : Times],
               send : SendButtons]
  /\ args \in [op : WaitOps, timeout : Timeouts]
  /\ ret = NoCall

WaitNetworkIdle ==
  /\ pc = "call"
  /\ args.op = "wait_network_idle"
  /\ ret' = wait_network_idle(args.timeout, page)
  /\ pc' = ret'.status
  /\ UNCHANGED << run_vars, disk, procs, appended, page, args >>

WaitProcessingDone ==
  /\ pc = "call"
  /\ args.op = "wait_processing_done"
  /\ ret' = wait_processing_done(args.timeout, page)
  /\ pc' = ret'.status
  /\ UNCHANGED << run_vars, disk, procs, appended, page, args >>

WaitSendEnabled ==
  /\ pc = "call"
  /\ args.op = "wait_send_enabled"
  /\ ret' = Waited(IF wait_send_enabled(args.timeout, page.send) THEN "True" ELSE "False",
                   0)
  /\ pc' = ret'.status
  /\ UNCHANGED << run_vars, disk, procs, appended, page, args >>

NextWaits ==
  \/ WaitNetworkIdle
  \/ WaitProcessingDone
  \/ WaitSendEnabled

SpecWaits == InitWaits /\ [][NextWaits]_vars

(***************************************************************************)
(* BrowserController.try_send_message (lines 72-111), called on its own.   *)
(* For each selector the page has no element, one that is filled, one that *)
(* is typed into through the keyboard after fill raised, or one whose      *)
(* click (or the typing) raises.  click and press tell whether btn.click() *)
(* and keyboard.press("Enter") raise.                                      *)
(***************************************************************************)
selectors == <<"textarea", "input[type=text]", "[contenteditable=true]", "div[role=textbox]">>

Editables == {"absent", "filled", "typed", "raises"}

\* what try_send_message did: its result, the selector it filled (0 for none),
\* the submits it tried in order, whether the last of them raised
Sent(value, filled, attempts, failed) ==
  [status |-> "returned", value |-> value, filled |-> filled, attempts |-> attempts,
   failed |-> failed]

\* lines 72-111
try_send_message(message, prefer_button, pg) ==
  LET found      == {i \in DOMAIN selectors : pg.editables[i] \in {"filled", "typed"}}
      first      == IF found = {} THEN 0 ELSE CHOOSE i \in found : \A h \in found : i <= h
      has_button == pg.send.present
  IN  IF found = {} THEN Sent(FALSE, 0, <<>>, FALSE)
      ELSE IF prefer_button /\ has_button
        THEN IF wait_send_enabled(SendTimeoutMs, pg.send)
               THEN IF pg.click = "ok" THEN Sent(TRUE, first, <<"click">>, FALSE)
                    ELSE IF pg.press = "ok"
                      THEN Sent(TRUE, first, <<"click", "Enter">>, FALSE)
                      ELSE Sent(FALSE, first, <<"click", "Enter">>, TRUE)
               ELSE Sent(FALSE, first, <<>>, FALSE)
        ELSE IF pg.press = "ok" THEN Sent(TRUE, first, <<"Enter">>, FALSE)
             ELSE Sent(FALSE, first, <<"Enter">>, TRUE)

InitSend ==
  /\ RunIdle
  /\ pc = "call"
  /\ disk = [p \in Paths |-> NoFile]
  /\ procs = <<>>
  /\ appended = [p \in Paths |-> <<>>]
  /\ page \in [editables : [DOMAIN selectors -> Editables], send : SendButtons,
               click : {"ok", "raises"}, press : {"ok", "raises"}]
  /\ args = [message |-> "Live in it", prefer_button |-> TRUE]
  /\ ret = NoCall

TrySendMessage ==
  /\ pc = "call"
  /\ ret' = try_send_message(args.message, args.prefer_button, page)
  /\ pc' = "returned"
  /\ UNCHANGED << run_vars, disk, procs, appended, page, args >>

NextSend == TrySendMessage

SpecSend == InitSend /\ [][NextSend]_vars

(***************************************************************************)
(* BrowserController.current_buttons (lines 244-245) and list_buttons      *)
(* (lines 114-177), called on their own.  The page is its elements in      *)
(* document order: the role, the inner text, whether the element is        *)
(* visible, the middle of its bounding box (cy).  No element has an        *)
(* aria-label or a title.                                                  *)
(***************************************************************************)
MaxElements == 2

Elements ==
  [role : {"button", "label"}, text : {"Continue", "Check here", "   "},
   visible : BOOLEAN, cy : {100, 320, 321}]

\* lines 122-168: the labels of one bucket, in document order
bucket(elements, role) ==
  LET found == SelectSeq(elements,
                         LAMBDA e : e.role = role /\ e.visible /\ strip(e.text) # "")
  IN  [n \in 1..Len(found) |-> strip(found[n].text)]

RECURSIVE dedupe(_, _)
\* lines 171-176: the first n labels, each kept where it comes first
dedupe(labels, n) ==
  IF n = 0 THEN <<>>
  ELSE LET out == dedupe(labels, n - 1)
       IN  IF labels[n] \in Range(out) THEN out ELSE Append(out, labels[n])

\* lines 114-177
list_buttons(pg) ==
  LET labels == bucket(pg.elements, "button") \o bucket(pg.elements, "link")
                  \o bucket(pg.elements, "input") \o bucket(pg.elements, "label")
  IN  dedupe(labels, Len(labels))

\* lines 244-245
current_buttons(pg) == list_buttons(pg)

InitButtons ==
  /\ RunIdle
  /\ pc = "call"
  /\ disk = [p \in Paths |-> NoFile]
  /\ procs = <<>>
  /\ appended = [p \in Paths |-> <<>>]
  /\ page \in {[elements |-> els] : els \in UNION {[1..n -> Elements] : n \in 1..MaxElements}}
  /\ args = <<>>
  /\ ret = NoCall

\* btns = await self.browser.current_buttons()
CurrentButtons ==
  /\ pc = "call"
  /\ ret' = [status |-> "returned", value |-> current_buttons(page)]
  /\ pc' = "returned"
  /\ UNCHANGED << run_vars, disk, procs, appended, page, args >>

NextButtons == CurrentButtons

SpecButtons == InitButtons /\ [][NextButtons]_vars

(***************************************************************************)
(* AgentFactory.answer_choice called on its own, with either order of the  *)
(* two helpers.  reply and shots are the page of the call.                 *)
(***************************************************************************)
\* the helpers answer_choice calls, in order (lines 100-111)
answer_choice_calls(r, prefer_click) ==
  IF ~prefer_click
    THEN IF type_and_log(r) \in {"raise", "sent"} THEN <<"type_and_log">>
         ELSE <<"type_and_log", "click_and_log">>
    ELSE IF click_and_log(r) \in {"raise", "ok"} THEN <<"click_and_log">>
         ELSE <<"click_and_log", "type_and_log">>

\* labels the runner hands to answer_choice
AnswerLabels ==
  {"Live in it", "Rent it out", "3-6 months away", "Check here", "Continue"}

InitAnswer ==
  /\ scenario = "none"
  /\ Fresh
  /\ RagIdle
  /\ UnitIdle
  /\ pc = "call"
  /\ columns = StdHeader
  /\ df = <<>>
  /\ script = << <<>> >>
  /\ reply \in Responses
  /\ shots \in ShotSinks
  /\ obs = 0
  /\ tick = 0
  /\ visible = <<>>
  /\ pending_steps = <<>>
  /\ answered = [term_end |-> FALSE, occupancy |-> FALSE]
  /\ CHOICE_PREFERENCES = [term_end |-> Absent, occupancy |-> Absent]
  /\ AIQA_SKIP_LLM = "unread"
  /\ agent_runs = <<>>
  /\ observed = <<>>
  /\ fired = "none"
  /\ executed = <<>>
  /\ nactions = 0
  /\ stop = "none"

\* a call of answer_choice(label, prefer_click)
AnswerChoice ==
  /\ pc = "call"
  /\ ret = NoCall
  /\ \E label \in AnswerLabels, prefer_click \in BOOLEAN :
       LET value == answer_choice(reply, prefer_click)
       IN  /\ args' = [label |-> label, prefer_click |-> prefer_click]
           /\ ret' = [status |-> IF value = "raise" THEN "raised" ELSE "returned",
                      value  |-> value,
                      calls  |-> answer_choice_calls(reply, prefer_click)]
  /\ pc' = "returned"
  /\ UNCHANGED << run_vars, disk, procs, appended, page >>

NextAnswer == AnswerChoice

SpecAnswer == InitAnswer /\ [][NextAnswer]_vars

(***************************************************************************)
(* Properties of the replay loop.                                          *)
(***************************************************************************)
AfterLoop == {"summary", "report", "close", "done"}

\* the rule whose branch appended event e, "-" for an event from outside the loop
RuleOf(e) ==
  IF e.agent = "You" THEN "E"
  ELSE IF e.text[1] = "Progressed via" THEN "P"
  ELSE IF e.text[1] = "Answered 'term end' ->" THEN "A"
  ELSE IF e.text[1] = "Answered 'occupancy' ->" THEN "B"
  ELSE IF e.text[1] = "Chose product via" THEN "C"
  ELSE IF e.text[1] = "Matched transcript choice" THEN "D"
  ELSE IF e.text[1] = "No matching buttons or text left; pausing." THEN "F"
  ELSE "-"

\* the events the loop appended, in order
LoopEvents == SelectSeq(transcript, LAMBDA e : RuleOf(e) # "-")

CountOf(rule) == Len(SelectSeq(transcript, LAMBDA e : RuleOf(e) = rule))

\* C1: the replay loop starts at most 80 iterations whatever the page shows and
\* answers; when the cap ends the loop the loop has raised nothing, the run is
\* past the loop, and once it is closing the summary event and the report exist.
C1_LoopCap ==
  /\ tick <= 80
  /\ pc = "loop" => tick < 80
  /\ stop = "cap" =>
       /\ tick = 80
       /\ pc \in AfterLoop \/ (pc = "raised" /\ error = "close")
       /\ CountOf("F") = 0
       /\ pc \in {"close", "done"} =>
            /\ report_file.exists
            /\ transcript[Len(transcript)].role = "assistant"
            /\ Len(report_file.rows) = Len(transcript)

C1_Witness == stop = "cap" /\ pc = "done" /\ report_file.exists /\ Len(LoopEvents) = 80

\* C2: one iteration of the loop makes at most one call of answer_choice or
\* type_and_log and appends at most one event, keeping the earlier events.
C2_OneActionPerTick ==
  [][tick' # tick =>
       /\ tick' = tick + 1
       /\ nactions' \in {nactions, nactions + 1}
       /\ \/ transcript' = transcript
          \/ /\ Len(transcript') = Len(transcript) + 1
             /\ SubSeq(transcript', 1, Len(transcript)) = transcript
             /\ RuleOf(transcript'[Len(transcript')]) = fired']_vars

C2_Witness == tick >= 3 /\ nactions = 3 /\ Len(LoopEvents) = 3 /\ pc = "loop"

\* what the rules ask of an observation, of the flags and of the queue
AppliesP(vis) ==
  \E i \in DOMAIN vis : \E k \in DOMAIN PROGRESS_BUTTONS :
     in_lower(PROGRESS_BUTTONS[k], vis[i])

AppliesA(vis, ans) ==
  /\ ~ans.term_end
  /\ \E i, j \in DOMAIN vis : vis[i] # vis[j] /\ {vis[i], vis[j]} \subseteq term_end_set

AppliesB(vis, ans) ==
  /\ ~ans.occupancy
  /\ \E i \in DOMAIN vis : vis[i] \in occupancy_set

AppliesC(vis) ==
  \E i \in DOMAIN vis : in_lower("Check here", vis[i])

AppliesD(vis, pending) ==
  \E n \in DOMAIN pending : \E i \in DOMAIN vis :
     /\ pending[n].action = "click"
     /\ in_lower(pending[n].label, vis[i])

AppliesE(pending) ==
  \E n \in DOMAIN pending : pending[n].action = Absent /\ pending[n].text # Absent

C4_FlagsSetOnce ==
  /\ [](tick = 0 => ~answered.term_end /\ ~answered.occupancy)
  /\ [][/\ answered.term_end => answered'.term_end
        /\ answered.occupancy => answered'.occupancy]_vars

C4_Witness ==
  /\ answered.term_end
  /\ answered.occupancy
  /\ fired \in {"D", "E", "F"}
  /\ pc = "done"

\* C5: at most one 'term end' answer event exists, and exactly one exists once
\* an iteration that saw two term-end labels and no progress label has
\* completed, however many iterations saw them.
C5_TermEndOnce ==
  /\ CountOf("A") <= 1
  /\ CountOf("A") = 1 <=> answered.term_end
  /\ ( /\ tick >= 1
       /\ pc # "raised"
       /\ ~AppliesP(observed)
       /\ Cardinality(labels_of(observed) \cap term_end_set) >= 2 )
     => CountOf("A") = 1

\* two term-end labels were seen again after the answer, and no second answer
C5_Witness ==
  /\ tick >= 3
  /\ fired \in {"D", "E"}
  /\ pc = "loop"
  /\ Cardinality(labels_of(observed) \cap term_end_set) >= 2
  /\ CountOf("A") = 1

\* the answers of one category that were submitted: the events of its own rule
\* and of Rule D with a label of the category, typed or clicked
Submitted(rule, vocabulary) ==
  SelectSeq(transcript,
            LAMBDA e : /\ \/ RuleOf(e) = rule
                          \/ RuleOf(e) = "D" /\ e.text[2] \in vocabulary
                       /\ e.text[Len(e.text)] \in {"typed", "clicked"})

\* C6: over a run at most one answer of the term_end vocabulary and at most
\* one of the occupancy vocabulary is submitted, by Rule A or B or by a
\* transcript Click of Rule D.
C6_CategoryAnsweredOnce ==
  /\ Len(Submitted("A", term_end_set)) <= 1
  /\ Len(Submitted("B", occupancy_set)) <= 1

\* pending with its i-th entry left out
Without(pending, i) ==
  [n \in 1..(Len(pending) - 1) |-> IF n < i THEN pending[n] ELSE pending[n + 1]]

\* C7: no step is handed out twice and a step handed out is no longer queued;
\* once the queue is built, a step of the run leaves it alone or is an
\* iteration of Rule D or E that removes exactly one step, the one it executes.
C7_StepConsumedOnce ==
  /\ [](/\ \A i, j \in DOMAIN executed : i # j => executed[i] # executed[j]
        /\ \A n \in DOMAIN pending_steps : \A k \in DOMAIN executed :
              pending_steps[n].idx # executed[k]
        /\ CountOf("D") + CountOf("E") <= Len(executed))
  /\ [][pc # "consent" =>
          \/ pending_steps' = pending_steps /\ executed' = executed
          \/ \E i \in DOMAIN pending_steps :
                /\ pending_steps' = Without(pending_steps, i)
                /\ executed' = Append(executed, pending_steps[i].idx)
                /\ tick' = tick + 1
                /\ fired' \in {"D", "E"}]_vars

\* the free text was executed before the Click queued ahead of it, and one
\* step is still queued
C7_Witness ==
  /\ executed = <<2, 1>>
  /\ Len(pending_steps) = 1
  /\ pc = "loop"

\* C8: with the transcript Welcome / Live in it / looking good and a page that
\* shows Live in it, Rent it out once and nothing afterwards, a run that
\* leaves the loop has made three iterations: Rule B answered Live in it,
\* Rule E typed looking good, Rule F logged the idle event and stopped.
C8_EndToEnd ==
  ( /\ df = WelcomeTranscript
    /\ script = << <<"Live in it", "Rent it out">>, <<>> >>
    /\ pc \in AfterLoop )
  => /\ tick = 3
     /\ stop = "idle"
     /\ Len(LoopEvents) = 3
     /\ RuleOf(LoopEvents[1]) = "B"
     /\ LoopEvents[1].role = "action"
     /\ LoopEvents[1].text[2] = "Live in it"
     /\ LoopEvents[2].role = "user"
     /\ LoopEvents[2].text = <<"looking good">>
     /\ LoopEvents[3].role = "info"
     /\ RuleOf(LoopEvents[3]) = "F"
     /\ answered = [term_end |-> FALSE, occupancy |-> TRUE]

C8_Witness ==
  /\ df = WelcomeTranscript
  /\ script = << <<"Live in it", "Rent it out">>, <<>> >>
  /\ pc = "done"
  /\ Len(LoopEvents) = 3

\* C9: the loop logs the idle event and stops only when the scroll and
\* observe cycles of that iteration revealed no label.
C9_IdleOnlyWhenNothingRevealed ==
  stop = "idle" => visible = <<>>

\* C10: when the page refuses the interaction of the rule an iteration takes,
\* the event of that iteration carries 'failed' and the loop goes on.
C10_FailureIsMarked ==
  [][( /\ tick' = tick + 1
       /\ shots = "ok"
       /\ fired' \in {"P", "A", "B", "C", "D", "E"}
       /\ ~reply.sent
       /\ fired' = "E" \/ ~reply.ok )
     => /\ pc' = loop_pc(tick + 1)
        /\ Len(transcript') = Len(transcript) + 1
        /\ "failed" \in Range(transcript'[Len(transcript')].text)]_vars

(***************************************************************************)
(* Properties of the scenario functions and of semantic_agreement.         *)
(***************************************************************************)
Ended == pc \in {"done", "raised"}

LastEvent == transcript[Len(transcript)]

\* C11: once the browser was launched, a scenario function that has ended, by
\* returning or by an exception, has closed the browser session and the model
\* client.
C11_CleanupOnEveryExit ==
  Ended /\ browser # "new" => browser = "closed" /\ model_client = "closed"

\* C12: a summary agent that raises is caught: the summary event is appended
\* with the placeholder text, the run goes on to write the report with that
\* event in it, and with AIQA_SKIP_LLM=1 the agent is never run.
C12_SummaryFailureIsCaught ==
  /\ [](AIQA_SKIP_LLM = "1" => agent_runs = <<>>)
  /\ [](agent_runs = <<"raised">> =>
          /\ LastEvent.role = "assistant"
          /\ LastEvent.text = <<"Summary failed:", "e">>
          /\ pc \in {"report", "close", "done"} \/ (pc = "raised" /\ error = "close")
          /\ pc # "report" =>
               /\ report_file.exists
               /\ report_file.rows[Len(report_file.rows)].text = LastEvent.text)
  /\ [][pc = "summary" =>
          /\ pc' = "report"
          /\ Len(transcript') = Len(transcript) + 1
          /\ SubSeq(transcript', 1, Len(transcript)) = transcript]_vars
  /\ [][pc = "report" => pc' = "close" /\ report_file'.exists]_vars

C12_Witness ==
  /\ agent_runs = <<"raised">>
  /\ pc = "done"
  /\ report_file.exists
  /\ report_file.rows[Len(report_file.rows)].text = <<"Summary failed:", "e">>

ExpectedPath ==
  IF scenario = "scenario1" THEN "reports_dir/scenario1_report.html"
  ELSE "reports_dir/scenario2_rag_report.html"

\* an interaction of the replay loop that failed
FailedInteraction ==
  /\ scenario = "scenario1"
  /\ \E n \in DOMAIN transcript : "failed" \in Range(transcript[n].text)

\* C13: the report is written at most once in a run; a scenario function that
\* returns has written it once, at its own path; and once the replay loop has
\* ended, by idling, at the cap or after failed interactions, or the judge has
\* given the verdict, nothing stands between the run and the write.
C13_ReportWrittenOnce ==
  /\ [](report_file.writes <= 1)
  /\ [](pc \in {"close", "quit", "done"} =>
          /\ report_file.exists
          /\ report_file.writes = 1
          /\ report_file.path = ExpectedPath)
  /\ [][(pc \in {"summary", "report", "write"}) => ~(pc' = "raised")]_vars
  /\ [][(pc \in {"report", "write"}) => report_file'.writes = 1]_vars

C13_Witness ==
  /\ FailedInteraction
  /\ stop = "cap"
  /\ pc = "done"
  /\ report_file.writes = 1
  /\ report_file.path = "reports_dir/scenario1_report.html"

\* transcript files without a speaker and a message column, or not there at all
Malformed == {<<Absent>>, <<"Speaker", "Text">>, <<"Message">>}

FatalErrors == {"launch", "goto", "FileNotFoundError", "ValueError", "embeddings"}

\* C14: a run whose transcript file is missing or malformed, whose ground-truth
\* file is missing, whose browser cannot be launched, whose page cannot be
\* reached or whose embeddings cannot be built ends in that exception: it takes
\* no further step and no report file is written.
C14_FatalFailureNoReport ==
  /\ [](scenario = "scenario1" /\ columns \in Malformed =>
          pc \in {"start", "raised"} /\ report_file.writes = 0)
  /\ [](scenario = "scenario2" /\ ~ground_truth =>
          pc \in {"start", "ask", "rag", "raised"} /\ report_file.writes = 0)
  /\ [](error \in FatalErrors => pc = "raised" /\ report_file.writes = 0)
  /\ [][~(pc = "raised")]_vars

C14_Witness ==
  /\ scenario = "scenario1"
  /\ columns = <<"Speaker", "Text">>
  /\ error = "ValueError"
  /\ pc = "raised"
  /\ ~report_file.exists

\* C15: a call of semantic_agreement with an empty text returns (False, 0.0)
\* whatever the threshold, having built no OpenAIEmbeddings and issued no
\* embed_query.
C15_EmptyTextShortCircuit ==
  pc # "call" /\ (text_a = "" \/ text_b = "") =>
    /\ result = [status |-> "returned", is_match |-> FALSE, score |-> 0]
    /\ emb_made = 0
    /\ emb_queries = 0

C15_Witness ==
  /\ pc = "returned"
  /\ text_a = "in 24 hours"
  /\ text_b = ""
  /\ threshold = 0
  /\ result.is_match = FALSE

JudgeEvents == SelectSeq(transcript, LAMBDA e : e.role = "judge")

\* C16: when semantic_agreement is called on two non-empty texts and no
\* OpenAIEmbeddings object can be built, the call raises and run_scenario2 ends
\* in that exception with no judge event and no report.
C16_NoEmbeddingsNoVerdict ==
  /\ [][pc = "judge" /\ rag_answer # "" /\ emb_made' = emb_made =>
          /\ result'.status = "raised"
          /\ pc' = "raised"
          /\ transcript' = transcript]_vars
  /\ [](result.status = "raised" =>
          pc = "raised" /\ JudgeEvents = <<>> /\ ~report_file.exists)

C16_Witness ==
  /\ pc = "raised"
  /\ error = "embeddings"
  /\ text_b = "in 24 hours"
  /\ result.status = "raised"
  /\ emb_made = 0

\* C17: for two non-empty texts the match is exactly score >= threshold, and
\* the judge event says PASS exactly when the call returned a match.
C17_MatchIffAtLeastThreshold ==
  /\ [](result.status = "returned" /\ text_a # "" /\ text_b # "" =>
          (result.is_match <=> result.score >= threshold))
  /\ [](JudgeEvents # <<>> =>
          /\ Len(JudgeEvents) = 1
          /\ result.status = "returned"
          /\ (JudgeEvents[1].text[1] = "PASS" <=> result.is_match)
          /\ JudgeEvents[1].text[1] \in {"PASS", "FAIL"})

C17_Witness ==
  /\ pc = "done"
  /\ text_b = "in 24 hours"
  /\ result.score = 850
  /\ threshold = 850
  /\ JudgeEvents[1].text[1] = "PASS"

(***************************************************************************)
(* Properties of build_steps_from_excel and of CHOICE_PREFERENCES.         *)
(***************************************************************************)
\* the speaker of row n is the human participant
Human(n) == lower(Chars[strip(df[n].Speaker)]) = Chars["anant"]

Blank(n) == strip(df[n].Message) = ""

\* the entries of click_map that the message of row n matches
Matching(n) == {k \in DOMAIN click_map : <<k, strip(df[n].Message)>> \in SearchTab}

First(S) == CHOOSE k \in S : \A h \in S : k <= h

\* rank of row n among the rows that compile to a step
Rank(n) == Cardinality({m \in 1..n : Human(m) /\ ~Blank(m)})

\* C18: a row of the human participant whose text matches an entry of click_map
\* compiles to one step, a click on the label of the first matching entry in
\* table order, whatever the case of the text and the blanks around it.
C18_ClickForMatchingRow ==
  pc = "compiled" =>
    /\ Len(pending_steps) = Rank(Len(df))
    /\ \A n \in DOMAIN df :
         Human(n) /\ Matching(n) # {} =>
           /\ Rank(n) = Rank(n - 1) + 1
           /\ pending_steps[Rank(n)].action = "click"
           /\ pending_steps[Rank(n)].label = click_map[First(Matching(n))].label
           /\ pending_steps[Rank(n)].text = Absent

C18_Witness ==
  /\ pc = "compiled"
  /\ df = << [Speaker |-> " ANANT ", Message |-> "Rent it out or Live in it"],
             [Speaker |-> "Anant", Message |-> "  RENT it OUT  "] >>
  /\ pending_steps[1].label = "Live in it"
  /\ pending_steps[2].label = "Rent it out"

\* the rows that have a step, counted up to row n
StepRows(n, rows) == Cardinality({m \in 1..n : m \in rows})

\* the context has one turn per row, in row order, and the steps are those of
\* the rows in rows, in row order, one each
CompiledFrom(rows) ==
  /\ Len(transcript) = Len(df)
  /\ \A n \in DOMAIN df :
       /\ transcript[n].text = <<strip(df[n].Message)>>
       /\ transcript[n].agent =
            IF strip(df[n].Speaker) = "" THEN "Unknown" ELSE strip(df[n].Speaker)
  /\ Len(pending_steps) = Cardinality(rows)
  /\ \A n \in rows :
       LET step == pending_steps[StepRows(n, rows)]
       IN  /\ step.idx = StepRows(n, rows)
           /\ IF step.action = "click" THEN Matching(n) # {}
              ELSE step.text = strip(df[n].Message)

TermEndPhrases ==
  {"6+ months", "3-6 months", "3 -- 6 months", "3--6 months", "less than 3 months",
   "already ended"}

OccupancyPhrases == {"live in it", "rent it out"}

\* the context turns whose text contains a phrase of the category
Mentions(phrases) ==
  {n \in DOMAIN df : \E ph \in phrases : has(strip(df[n].Message), ph)}

Last(S) == CHOOSE k \in S : \A h \in S : k >= h

\* the label the text of a turn that mentions the category stands for
OccupancyLabel(txt) == IF has(txt, "live in it") THEN "Live in it" ELSE "Rent it out"

TermEndLabel(txt) ==
  IF has(txt, "6+ months") THEN "6+ months away"
  ELSE IF has(txt, "3-6 months") \/ has(txt, "3 -- 6 months") \/ has(txt, "3--6 months")
    THEN "3-6 months away"
  ELSE IF has(txt, "less than 3 months") THEN "Less than 3 months"
  ELSE "It's already ended"

PreferencesComputed ==
  \/ pc \in {"loop", "summary", "report", "close", "done"}
  \/ pc = "raised" /\ error \in {"screenshot", "close"}

\* C20: CHOICE_PREFERENCES is unset until it is computed before the loop and no
\* later step changes it; each category is unset or a label of its vocabulary,
\* the one of the last context turn that mentions the category.
C20_PreferencesFromLastMention ==
  /\ [](~PreferencesComputed =>
          CHOICE_PREFERENCES = [term_end |-> Absent, occupancy |-> Absent])
  /\ [][PreferencesComputed => CHOICE_PREFERENCES' = CHOICE_PREFERENCES]_vars
  /\ [](CHOICE_PREFERENCES.occupancy \in occupancy_set \cup {Absent})
  /\ [](CHOICE_PREFERENCES.term_end \in term_end_set \cup {Absent})
  /\ [](PreferencesComputed =>
          /\ CHOICE_PREFERENCES.occupancy =
               IF Mentions(OccupancyPhrases) = {} THEN Absent
               ELSE OccupancyLabel(strip(df[Last(Mentions(OccupancyPhrases))].Message))
          /\ CHOICE_PREFERENCES.term_end =
               IF Mentions(TermEndPhrases) = {} THEN Absent
               ELSE TermEndLabel(strip(df[Last(Mentions(TermEndPhrases))].Message)))

C20_Witness ==
  /\ df[1].Message = "Live in it"
  /\ df[3].Message = "Rent it out"
  /\ CHOICE_PREFERENCES = [term_end |-> "3-6 months away", occupancy |-> "Rent it out"]
  /\ pc = "loop"
  /\ tick >= 2

(***************************************************************************)
(* Properties of the log, the reports and the helpers of the browser.      *)
(***************************************************************************)
IsPrefix(a, b) == Len(a) <= Len(b) /\ SubSeq(b, 1, Len(a)) = a

C22_RunsLoseNothing ==
  /\ \A p \in LogPaths : \A n \in DOMAIN appended[p] :
        \E m \in DOMAIN disk[p].cells : disk[p].cells[m] = appended[p][n]
  /\ \A r \in DOMAIN procs :
        procs[r].pc = "done" => disk[report_path(procs[r])].cells = report_of(r)

\* the send button was there and enabled before the wait of try_send_message
\* was over
EnabledInTime(send) ==
  send.present /\ send.enabled_at # Never /\ send.enabled_at < SendTimeoutMs

\* C23: once try_send_message has filled an editable element, it clicks the
\* send button when the button is there and enabled within the wait, and
\* presses Enter in every other case; it returns false only when nothing was
\* filled or the submit it tried raised.
C23_EnterUnlessButtonEnabled ==
  pc = "returned" =>
    /\ ret.filled # 0 /\ EnabledInTime(page.send) => ret.attempts[1] = "click"
    /\ ret.filled # 0 /\ ~EnabledInTime(page.send) => ret.attempts = <<"Enter">>
    /\ ~ret.value => ret.filled = 0 \/ ret.failed

\* the labels of the visible elements, each with the lowest place it has
Lowest(label) ==
  LET ys == {page.elements[i].cy : i \in {j \in DOMAIN page.elements :
                /\ page.elements[j].visible
                /\ strip(page.elements[j].text) = label}}
  IN  CHOOSE y \in ys : \A z \in ys : z <= y

Bottom ==
  LET ys == {page.elements[i].cy : i \in {j \in DOMAIN page.elements :
                /\ page.elements[j].visible
                /\ strip(page.elements[j].text) # ""}}
  IN  CHOOSE y \in ys : \A z \in ys : z <= y

\* C24: every label of the list current_buttons returns lies within 220px of
\* the bottommost visible affordance of the page.
C24_OnlyBottomBand ==
  pc = "returned" =>
    \A n \in DOMAIN ret.value : Bottom - Lowest(ret.value[n]) <= 220

\* the condition the wait is for does not come within the timeout
NotInTime ==
  IF args.op = "wait_network_idle"
    THEN page.idle_at = Never \/ page.idle_at > args.timeout
  ELSE IF args.op = "wait_processing_done"
    THEN page.banner.present
           /\ (page.banner.hidden_at = Never \/ page.banner.hidden_at > args.timeout)
  ELSE ~page.send.present \/ page.send.enabled_at = Never
         \/ page.send.enabled_at >= args.timeout

\* C25: no wait helper raises; when its condition does not come in time,
\* wait_network_idle and wait_processing_done return after a fallback delay of
\* at most min(1500, timeout) ms and wait_send_enabled returns false.
C25_WaitsDegrade ==
  pc # "call" =>
    /\ ret.status = "returned"
    /\ NotInTime =>
         IF args.op = "wait_send_enabled"
           THEN ret.value = "False"
           ELSE /\ ret.fallback > 0
                /\ ret.fallback <= 1500
                /\ ret.fallback <= args.timeout

\* each helper has met a condition that did not come, with a timeout below and
\* one above 1500 ms
C25_Witness ==
  /\ pc = "returned"
  /\ NotInTime
  /\ \/ args.op = "wait_network_idle" /\ args.timeout = 1000 /\ ret.fallback = 1000
     \/ args.op = "wait_processing_done" /\ args.timeout = 8000 /\ ret.fallback = 1500
     \/ args.op = "wait_send_enabled" /\ page.send.present /\ ret.value = "False"

C27_OneImagePerEvent ==
  \A i, j \in DOMAIN transcript :
     (i # j /\ transcript[i].screenshot \notin {NoShot, <<Absent>>})
       => transcript[i].screenshot # transcript[j].screenshot

\* C28: Rule P answers with 'Compare live mortgage deals' whenever a visible
\* label contains it, whatever the case and whatever other progression labels
\* are visible; otherwise with the first entry of PROGRESS_BUTTONS, in list
\* order, that some visible label contains.
C28_PrimaryCtaFirst ==
  [][(tick' = tick + 1 /\ fired' = "P" /\ ~(pc' = "raised")) =>
       LET vis     == observed'
           shown(k) == \E i \in DOMAIN vis : in_lower(PROGRESS_BUTTONS[k], vis[i])
           answer  == transcript'[Len(transcript')].text[2]
       IN  /\ Len(transcript') = Len(transcript) + 1
           /\ IF \E i \in DOMAIN vis : in_lower("Compare live mortgage deals", vis[i])
                THEN answer = "Compare live mortgage deals"
                ELSE \E k \in DOMAIN PROGRESS_BUTTONS :
                        /\ answer = PROGRESS_BUTTONS[k]
                        /\ shown(k)
                        /\ \A h \in 1..(k - 1) : ~shown(h)]_vars

\* the primary label was chosen though Continue stands before it on the page
C28_Witness ==
  /\ fired = "P"
  /\ pc = "loop"
  /\ observed = <<"Continue", "Compare live mortgage deals">>
  /\ LastEvent.text[2] = "Compare live mortgage deals"

\* a screen on which only Rule C can answer, whatever the flags
OnlyCheckHere(vis) ==
  /\ \E i \in DOMAIN vis : has(vis[i], "check here")
  /\ ~AppliesP(vis)
  /\ \A i \in DOMAIN vis : vis[i] \notin term_end_set \cup occupancy_set

\* C29: an iteration that sees a label containing 'check here' while no rule
\* P, A or B applies takes Rule C, whatever was answered before, sets no flag
\* and, unless its helper raises, appends one 'Chose product' event; a run
\* that sees such a screen in every iteration and leaves the loop has made 80
\* iterations, 80 'Chose product' events and no idle event.
C29_CheckHereRepeats ==
  /\ [][(/\ tick' = tick + 1
         /\ \E i \in DOMAIN observed' : has(observed'[i], "check here")
         /\ ~AppliesP(observed')
         /\ ~AppliesA(observed', answered)
         /\ ~AppliesB(observed', answered))
        => /\ fired' = "C"
           /\ answered' = answered
           /\ ~(pc' = "raised") =>
                /\ Len(transcript') = Len(transcript) + 1
                /\ RuleOf(transcript'[Len(transcript')]) = "C"]_vars
  /\ []((pc \in AfterLoop /\ \A n \in DOMAIN script : OnlyCheckHere(script[n]))
          => /\ stop = "cap"
             /\ tick = 80
             /\ CountOf("C") = 80
             /\ CountOf("F") = 0)

C29_Witness ==
  /\ pc = "report"
  /\ \A n \in DOMAIN script : OnlyCheckHere(script[n])
  /\ CountOf("C") = 80
  /\ Len(pending_steps) > 0

\* the Clicks of a queue, in order
Clicks(pending) == SelectSeq(pending, LAMBDA step : step.action = "click")

\* C30: Rule D removes the earliest Click of the queue whose label some
\* visible label contains, whatever the case, and executes that step; the
\* other entries stay in their order.  An iteration in which no Click matches
\* removes no Click, and an iteration of another rule than D and E leaves the
\* queue as it was.
C30_RuleDPopsEarliestMatch ==
  [][(tick' = tick + 1) =>
       LET vis     == observed'
           matches == {n \in DOMAIN pending_steps :
                         /\ pending_steps[n].action = "click"
                         /\ \E i \in DOMAIN vis : in_lower(pending_steps[n].label, vis[i])}
       IN  /\ fired' = "D" =>
                \E n \in matches :
                   /\ \A h \in matches : n <= h
                   /\ pending_steps' = Without(pending_steps, n)
                   /\ executed' = Append(executed, pending_steps[n].idx)
                   /\ ~(pc' = "raised") =>
                        transcript'[Len(transcript')].text[2] = pending_steps[n].label
           /\ fired' \in {"E", "F"} =>
                /\ matches = {}
                /\ Clicks(pending_steps') = Clicks(pending_steps)
           /\ fired' \notin {"D", "E"} => pending_steps' = pending_steps]_vars

\* Rule D took the first of two matching Clicks and left the free text and the
\* second Click queued
C30_Witness ==
  /\ fired = "D"
  /\ pc = "loop"
  /\ executed = <<1>>
  /\ Len(pending_steps) = 2
  /\ pending_steps[1].action = Absent
  /\ pending_steps[2].action = "click"
  /\ in_lower(pending_steps[2].label, observed[2])

\* the free texts of a queue, by position
FreeTexts(pending) ==
  {n \in DOMAIN pending : pending[n].action = Absent /\ pending[n].text # Absent}

\* C31: an iteration takes Rule E exactly when none of P, A, B, C, D applies to
\* its observation and the queue holds a free text, whatever the page shows;
\* it removes the earliest free text of the queue, types it and logs it as a
\* user event, and every Click stays queued in its order, those ahead of the
\* popped free text included.
C31_RuleEPopsEarliestFreeText ==
  [][(tick' = tick + 1) =>
       LET vis   == observed'
           texts == FreeTexts(pending_steps)
           free  == /\ ~AppliesP(vis)
                    /\ ~AppliesA(vis, answered)
                    /\ ~AppliesB(vis, answered)
                    /\ ~AppliesC(vis)
                    /\ ~AppliesD(vis, pending_steps)
       IN  /\ fired' = "E" <=> (free /\ texts # {})
           /\ fired' = "E" =>
                \E n \in texts :
                   /\ \A h \in texts : n <= h
                   /\ pending_steps' = Without(pending_steps, n)
                   /\ Clicks(pending_steps') = Clicks(pending_steps)
                   /\ executed' = Append(executed, pending_steps[n].idx)
                   /\ nactions' = nactions + 1
                   /\ ~(pc' = "raised") =>
                        /\ transcript'[Len(transcript')].role = "user"
                        /\ transcript'[Len(transcript')].text = <<pending_steps[n].text>>]_vars

\* Rule E typed the first of two free texts past a Click queued ahead of it,
\* on a page that shows labels
C31_Witness ==
  /\ fired = "E"
  /\ pc = "loop"
  /\ observed # <<>>
  /\ Len(pending_steps) = 2
  /\ pending_steps[1].action = "click"
  /\ pending_steps[2].action = Absent
  /\ executed[Len(executed)] < pending_steps[2].idx
  /\ pending_steps[1].idx < executed[Len(executed)]

\* the events of one rule, in order
EventsOf(rule) == SelectSeq(transcript, LAMBDA e : RuleOf(e) = rule)

\* C32: an iteration takes Rule A only when two different labels of the
\* term-end vocabulary are visible and Rule B only when a label of the
\* occupancy vocabulary is; Rule A answers with the term_end preference of the
\* transcript when there is one and with '3-6 months away' when there is none,
\* Rule B with the occupancy preference and with 'Live in it' when there is
\* none.
C32_PreferenceOrDefault ==
  [][(tick' = tick + 1) =>
       LET vis  == observed'
           last == transcript'[Len(transcript')]
       IN  /\ fired' = "A" =>
                /\ \E i, j \in DOMAIN vis :
                      vis[i] # vis[j] /\ {vis[i], vis[j]} \subseteq term_end_set
                /\ ~(pc' = "raised") =>
                     /\ CHOICE_PREFERENCES.term_end # Absent =>
                          last.text[2] = CHOICE_PREFERENCES.term_end
                     /\ CHOICE_PREFERENCES.term_end = Absent =>
                          last.text[2] = "3-6 months away"
           /\ fired' = "B" =>
                /\ \E i \in DOMAIN vis : vis[i] \in occupancy_set
                /\ ~(pc' = "raised") =>
                     /\ CHOICE_PREFERENCES.occupancy # Absent =>
                          last.text[2] = CHOICE_PREFERENCES.occupancy
                     /\ CHOICE_PREFERENCES.occupancy = Absent =>
                          last.text[2] = "Live in it"]_vars

\* the transcript named 6+ months away and no occupancy: Rule A answered with
\* the preference, Rule B with its default on a page that shows Rent it out
\* alone
C32_Witness ==
  /\ df = QueueTranscript
  /\ fired = "B"
  /\ pc = "loop"
  /\ observed = <<"Rent it out">>
  /\ Len(EventsOf("A")) = 1
  /\ EventsOf("A")[1].text[2] = "6+ months away"
  /\ LastEvent.text[2] = "Live in it"

\* C33: answer_choice calls type_and_log first and click_and_log second, or
\* the reverse with prefer_click, and makes the second call exactly when the
\* first returned false; a call that returns gives 'typed' or 'clicked' for
\* the attempt that succeeded, the first attempt when both would, and
\* 'failed' exactly when both attempts failed.
C33_SecondAttemptOnlyAfterFailure ==
  pc = "returned" =>
    LET first  == IF args.prefer_click THEN "click_and_log" ELSE "type_and_log"
        second == IF args.prefer_click THEN "type_and_log" ELSE "click_and_log"
        won1   == IF args.prefer_click THEN reply.ok ELSE reply.sent
        won2   == IF args.prefer_click THEN reply.sent ELSE reply.ok
        name1  == IF args.prefer_click THEN "clicked" ELSE "typed"
        name2  == IF args.prefer_click THEN "typed" ELSE "clicked"
    IN  /\ ret.calls \in {<<first>>, <<first, second>>}
        /\ Len(ret.calls) = 2 => ~won1
        /\ ret.status = "returned" =>
             /\ Len(ret.calls) = 2 <=> ~won1
             /\ ret.value = name1 <=> won1
             /\ ret.value = name2 <=> (~won1 /\ won2)
             /\ ret.value = "failed" <=> (~won1 /\ ~won2)

\* with prefer_click the click failed and the typing that followed succeeded
C33_Witness ==
  /\ pc = "returned"
  /\ args.prefer_click
  /\ ret.status = "returned"
  /\ ret.calls = <<"click_and_log", "type_and_log">>
  /\ ret.value = "typed"

\* C34: a run holds at most one idle event, and it is the last event of the
\* loop: no iteration follows it.  The iteration that appends it saw an
\* observation to which none of P, A, B, C applies, with a queue that holds no
\* free text and no Click matching that observation; it leaves the queue as
\* it is, so Clicks that matched nothing stay unexecuted.
C34_IdleOnceAndLast ==
  /\ [](/\ CountOf("F") <= 1
        /\ CountOf("F") = 1 =>
             /\ RuleOf(LoopEvents[Len(LoopEvents)]) = "F"
             /\ stop = "idle"
             /\ pc # "loop")
  /\ [][/\ CountOf("F") = 1 => (tick' = tick /\ LoopEvents' = LoopEvents)
        /\ (tick' = tick + 1 /\ fired' = "F") =>
             /\ ~AppliesP(observed')
             /\ ~AppliesA(observed', answered)
             /\ ~AppliesB(observed', answered)
             /\ ~AppliesC(observed')
             /\ ~AppliesD(observed', pending_steps)
             /\ FreeTexts(pending_steps) = {}
             /\ pending_steps' = pending_steps
             /\ executed' = executed
             /\ Len(transcript') = Len(transcript) + 1
             /\ transcript'[Len(transcript')].role = "info"
             /\ RuleOf(transcript'[Len(transcript')]) = "F"
        /\ (tick' = tick + 1 /\ fired' # "F") => CountOf("F")' = 0]_vars

\* the run idled after other iterations with a Click that never matched
\* still queued
C34_Witness ==
  /\ stop = "idle"
  /\ pc = "done"
  /\ CountOf("F") = 1
  /\ Len(LoopEvents) >= 3
  /\ Len(pending_steps) >= 1
  /\ \A n \in DOMAIN pending_steps : pending_steps[n].action = "click"

\* C35: an iteration of Rule A that appends its event leaves the term_end flag
\* true, and one of Rule B the occupancy flag, whatever answer_choice
\* returned, 'failed' included, and touches no other flag; a rule whose flag
\* is true is never taken again, so a category has at most one answer event
\* even when that answer failed.
C35_FlagSetEvenWhenFailed ==
  /\ [][(tick' = tick + 1) =>
          /\ (fired' = "A" /\ pc' # "raised") =>
               /\ transcript'[Len(transcript')].text[4] \in {"typed", "clicked", "failed"}
               /\ answered' = [answered EXCEPT !.term_end = TRUE]
          /\ (fired' = "B" /\ pc' # "raised") =>
               /\ transcript'[Len(transcript')].text[4] \in {"typed", "clicked", "failed"}
               /\ answered' = [answered EXCEPT !.occupancy = TRUE]
          /\ answered.term_end => fired' # "A"
          /\ answered.occupancy => fired' # "B"]_vars
  /\ [](/\ CountOf("A") <= 1
        /\ CountOf("B") <= 1
        /\ CountOf("A") = 1 => answered.term_end
        /\ CountOf("B") = 1 => answered.occupancy)

\* the term-end answer failed, the same two labels were seen again and the
\* iteration went to another rule
C35_Witness ==
  /\ CountOf("A") = 1
  /\ EventsOf("A")[1].text[4] = "failed"
  /\ answered.term_end
  /\ tick >= 2
  /\ pc = "loop"
  /\ fired \in {"D", "E"}
  /\ \E i, j \in DOMAIN observed :
        observed[i] # observed[j] /\ {observed[i], observed[j]} \subseteq term_end_set

====
